---------------------------- MODULE Spec2Model ----------------------------
(***************************************************************************)
(* A model of nototools/generate_website_data.py: the locale fallback      *)
(* chain, the exemplar string parser, the CLDR lookups and their caches,   *)
(* the script tokens, the language objects, the family member selector,    *)
(* the package assembler and the loop of main over the target platforms.   *)
(*                                                                         *)
(* Python strings are modelled as sequences: a locale identifier is a      *)
(* sequence of one-character strings, an exemplar source is a sequence of  *)
(* code points.  Each component has its own specification (SpecLocale,     *)
(* SpecParse, SpecZip, SpecFam, SpecCldr, SpecScript, SpecCaches,          *)
(* SpecLangs, SpecMain); the variables of the components a specification   *)
(* does not run stay at their initial values.                              *)
(***************************************************************************)
EXTENDS Integers, Sequences, FiniteSets, TLC

VARIABLES
    \* ---- locale fallback (find_parent_locale and the walks using it)
    parent_locale,   \* the dict parent_locale after parse_supplemental_data
    lpc,             \* "idle" | "returned" | "walking" | "done"
    walk_start,      \* the locale the current walk started from
    locl,            \* the loop variable locl of get_exemplar
    chain,           \* the values locl has taken, in order
    steps,           \* number of find_parent_locale calls made by the walk
    fp_arg,          \* argument of the last direct find_parent_locale call
    fp_result,       \* its return value
    \* ---- exemplar string parser
    exstr,           \* the argument of exemplar_string_to_list (code points)
    ppc,             \* "idle" | "parsed"
    parse_out,       \* [err, list]: the exception raised ("" for none) and
                     \* the list returned
    \* ---- package assembler
    zip_contents_cache,  \* the dict zip_contents_cache: basename -> frozenset
    pkg_files,       \* the files of OUTPUT_DIR/pkgs: basename -> [writes,
                     \* recompressions], how often each was written
    zpc,             \* "running" | "aborted" (an exception ended the run)
    zcalls,          \* number of create_zip calls made
    zlast,           \* the last create_zip call: its arguments, the basename
                     \* it computed, whether the file existed, its outcome
    \* ---- family member selector (create_families_object)
    all_fonts,       \* the catalog find_fonts built
    fam_platform,    \* the argument target_platform of create_families_object
    keys_left,       \* the keys of all_keys the loop has not visited yet
    families,        \* the dict families
    all_font_files,  \* the set all_font_files
    fpc,             \* "idle" | "running" | "returned" | "aborted"
    flast,           \* the last loop iteration: its key, the member set at
                     \* each stage, the exception that ended it ("" for none)
    \* ---- CLDR lookups (get_exemplar, get_native_language_name)
    cldr_files,      \* the files under CLDR_DIR: path -> content
    exemplar_from_file_cache,
    language_name_from_file_cache,
    exemplar_parses, \* path -> number of times get_exemplar_from_file
                     \* has called ElementTree.parse on the file
    name_parses,     \* (language, path) -> number of times
                     \* get_language_name_from_file has called it
    cpc,             \* "idle" | "running" | "aborted"
    ccalls,          \* number of lookups made
    clast,           \* the last lookup: function, arguments, result, exception
    \* ---- script tokens (convert_to_four_letter)
    script_token,    \* the argument script
    lname_order,     \* the order in which the loop meets the long names
    vpc,             \* "idle" | "called" | "done"
    four_letter,     \* the outcome: the value returned or the exception
    \* ---- language objects (create_langs_object)
    all_used_lang_scrs,
    supported_scripts,
    sample_texts,    \* the (language, script) pairs with a file in
                     \* SAMPLE_TEXT_DIR
    langs_left,      \* the elements of all_used_lang_scrs not visited yet
    langs,           \* the dict langs
    family_to_langs,
    gpc,             \* "idle" | "running" | "returned" | "aborted"
    glast,           \* the last loop iteration: its lang_scr, the script
                     \* resolved for it, the exception that ended it
    \* ---- the loop of main over the target platforms
    mpc,             \* "idle" | "families" | "package" | "patches" |
                     \* "done" | "aborted"
    platform_index,  \* the position of target_platform in the list of
                     \* line 1224
    selections       \* the create_zip calls create_families_object has
                     \* made: target platform, basename computed, members

localeVars == <<parent_locale, lpc, walk_start, locl, chain, steps, fp_arg, fp_result>>
parseVars == <<exstr, ppc, parse_out>>
zipVars == <<zip_contents_cache, pkg_files, zpc, zcalls, zlast>>
famVars == <<all_fonts, fam_platform, keys_left, families, all_font_files,
             fpc, flast>>

cldrVars == <<cldr_files, exemplar_from_file_cache,
              language_name_from_file_cache, exemplar_parses, name_parses,
              cpc, ccalls, clast>>

scriptVars == <<script_token, lname_order, vpc, four_letter>>

langVars == <<all_used_lang_scrs, supported_scripts, sample_texts,
              langs_left, langs, family_to_langs, gpc, glast>>

mainVars == <<mpc, platform_index, selections>>

vars == <<localeVars, parseVars, zipVars, famVars, cldrVars, scriptVars,
          langVars, mainVars>>

otherThanLocale ==
    <<parseVars, zipVars, famVars, cldrVars, scriptVars, langVars, mainVars>>
otherThanParse ==
    <<localeVars, zipVars, famVars, cldrVars, scriptVars, langVars, mainVars>>
otherThanZip ==
    <<localeVars, parseVars, famVars, cldrVars, scriptVars, langVars, mainVars>>
otherThanFam ==
    <<localeVars, parseVars, cldrVars, scriptVars, langVars, mainVars>>
otherThanCldr ==
    <<localeVars, parseVars, zipVars, famVars, scriptVars, langVars, mainVars>>
otherThanScript ==
    <<localeVars, parseVars, zipVars, famVars, cldrVars, langVars, mainVars>>

(***************************************************************************)
(* Bounds of the model.                                                    *)
(***************************************************************************)
MaxLocaleLen == 3
MaxOverrides == 1
MaxTokens == 3
MaxMembers == 2
MaxZipCalls == 2
MaxPresent == 2
MaxCldrCalls == 2
MaxRunOps == 3
MaxLangs == 2
MaxCatalog == 3
BulkSize == 50

(***************************************************************************)
(* General helpers.                                                        *)
(***************************************************************************)
Last(s) == s[Len(s)]

\* All sequences over S of length 0..n.
SeqsUpTo(S, n) == UNION {[1..k -> S] : k \in 0..n}

\* Number of positions of s holding x.
Count(s, x) == Cardinality({i \in 1..Len(s) : s[i] = x})

\* Python's None, and the value of the name `locale` (the imported module):
\* neither is a string, so neither equals any locale identifier.
None == <<"<None>">>
locale == <<"<module 'locale'>">>

(***************************************************************************)
(* Locale identifiers.                                                     *)
(***************************************************************************)
root == <<"r","o","o","t">>
pa == <<"p","a">>
pa_Arab == <<"p","a","-","A","r","a","b">>
pa_Arab_PK == <<"p","a","-","A","r","a","b","-","P","K">>
es == <<"e","s">>
es_419 == <<"e","s","-","4","1","9">>
es_AR == <<"e","s","-","A","R">>
ky_Latn == <<"k","y","-","L","a","t","n">>
sd_Deva == <<"s","d","-","D","e","v","a">>
tg_Arab == <<"t","g","-","A","r","a","b">>
ug_Cyrl == <<"u","g","-","C","y","r","l">>
zh_Hant_HK == <<"z","h","-","H","a","n","t","-","H","K">>
zh_Hant_MO == <<"z","h","-","H","a","n","t","-","M","O">>

\* The entries parse_supplemental_data adds after reading the XML.
HardCodedParents ==
    [l \in {ky_Latn, sd_Deva, tg_Arab, ug_Cyrl} |-> root]

\* Locales the walks start from and find_parent_locale is called on.
LocaleIds ==
    SeqsUpTo({"a", "-"}, MaxLocaleLen)
        \cup {root, pa, pa_Arab, pa_Arab_PK, es, es_419, es_AR, ky_Latn,
              zh_Hant_HK, zh_Hant_MO}

\* <parentLocale> elements of supplementalData.xml: locales and parents.
\* As in CLDR, no parent is itself overridden, so the tables are acyclic.
OverrideKeys == {es_AR, pa_Arab, pa_Arab_PK, zh_Hant_MO}
OverrideParents == {root, es, es_419, pa, zh_Hant_HK}

XmlParentTables ==
    UNION {[K -> OverrideParents] :
              K \in {S \in SUBSET OverrideKeys : Cardinality(S) <= MaxOverrides}}

\* parse_supplemental_data: the XML entries, then the hard-coded update.
parse_supplemental_data(xml) ==
    [l \in DOMAIN xml \cup DOMAIN HardCodedParents |->
        IF l \in DOMAIN HardCodedParents THEN HardCodedParents[l] ELSE xml[l]]

\* '-' in locl
HasDash(s) == \E i \in 1..Len(s) : s[i] = "-"

\* locl.rindex('-'), 0-based
rindex(s) == (CHOOSE i \in 1..Len(s) :
                 s[i] = "-" /\ \A j \in (i+1)..Len(s) : s[j] # "-") - 1

\* locl.index('-'), 0-based
index(s) == (CHOOSE i \in 1..Len(s) :
                 s[i] = "-" /\ \A j \in 1..(i-1) : s[j] # "-") - 1

NumSeparators(s) == Count(s, "-")

\* Faulty variant: the slice keeps the separator (locl[:rindex+1]).
find_parent_locale_keepdash(locl_) ==
    IF locl_ \in DOMAIN parent_locale THEN parent_locale[locl_]
    ELSE IF HasDash(locl_) THEN SubSeq(locl_, 1, rindex(locl_) + 1)
    ELSE IF locale = root THEN None
    ELSE root

\* Faulty variant: the slice is taken at the first separator (index, not rindex).
find_parent_locale_index(locl_) ==
    IF locl_ \in DOMAIN parent_locale THEN parent_locale[locl_]
    ELSE IF HasDash(locl_) THEN SubSeq(locl_, 1, index(locl_))
    ELSE IF locale = root THEN None
    ELSE root

\* find_parent_locale.  The third test compares the name `locale`, which is
\* the imported module, with 'root'.
find_parent_locale(locl_) ==
    IF locl_ \in DOMAIN parent_locale THEN parent_locale[locl_]
    ELSE IF HasDash(locl_) THEN SubSeq(locl_, 1, rindex(locl_))
    ELSE IF locale = root THEN None
    ELSE root

\* Steps a walk may take in the model before it is cut off.
MaxSteps == MaxLocaleLen + 3

LocaleIdle ==
    /\ parent_locale = HardCodedParents
    /\ lpc = "idle"
    /\ walk_start = None
    /\ locl = None
    /\ chain = <<>>
    /\ steps = 0
    /\ fp_arg = None
    /\ fp_result = None

ParseIdle ==
    /\ exstr = <<>>
    /\ ppc = "idle"
    /\ parse_out = [err |-> "", list |-> <<>>]

NoCall ==
    [major_name |-> <<>>, target_platform |-> "", fonts |-> {},
     basename |-> <<>>, existed |-> FALSE, err |-> "", ret |-> <<>>]

ZipIdle ==
    /\ zip_contents_cache = <<>>
    /\ pkg_files = <<>>
    /\ zpc = "running"
    /\ zcalls = 0
    /\ zlast = NoCall

NoIteration ==
    [key |-> <<>>, candidates |-> {}, after_platform |-> {}, members |-> {},
     err |-> ""]

FamIdle ==
    /\ all_fonts = {}
    /\ fam_platform = ""
    /\ keys_left = {}
    /\ families = <<>>
    /\ all_font_files = {}
    /\ fpc = "idle"
    /\ flast = NoIteration

\* A Python value that may be None (val is then empty).
PyNone == [none |-> TRUE, val |-> <<>>]
Some(v) == [none |-> FALSE, val |-> v]

\* `if value:` for a list or a string that may be None
Truthy(value) == ~value.none /\ value.val # <<>>

NoLookup == [fn |-> "", args |-> <<>>, ret |-> PyNone, err |-> ""]

NoLang == [lang_scr |-> <<>>, script |-> "", err |-> ""]

LangIdle ==
    /\ all_used_lang_scrs = {}
    /\ supported_scripts = {}
    /\ sample_texts = {}
    /\ langs_left = {}
    /\ langs = <<>>
    /\ family_to_langs = <<>>
    /\ gpc = "idle"
    /\ glast = NoLang

ScriptIdle ==
    /\ script_token = <<>>
    /\ lname_order = <<>>
    /\ vpc = "idle"
    /\ four_letter = [err |-> "", script |-> <<>>]

MainIdle ==
    /\ mpc = "idle"
    /\ platform_index = 0
    /\ selections = {}

CldrIdle ==
    /\ cldr_files = <<>>
    /\ exemplar_from_file_cache = <<>>
    /\ language_name_from_file_cache = <<>>
    /\ exemplar_parses = <<>>
    /\ name_parses = <<>>
    /\ cpc = "idle"
    /\ ccalls = 0
    /\ clast = NoLookup

InitLocale ==
    /\ MainIdle
    /\ LangIdle
    /\ ScriptIdle
    /\ ParseIdle
    /\ ZipIdle
    /\ FamIdle
    /\ CldrIdle
    /\ parent_locale \in {parse_supplemental_data(x) : x \in XmlParentTables}
    /\ lpc = "idle"
    /\ walk_start = None
    /\ locl = None
    /\ chain = <<>>
    /\ steps = 0
    /\ fp_arg = None
    /\ fp_result = None

\* A direct call find_parent_locale(l).
CallFindParent ==
    /\ lpc = "idle"
    /\ \E l \in LocaleIds :
          /\ fp_arg' = l
          /\ fp_result' = find_parent_locale(l)
    /\ lpc' = "returned"
    /\ UNCHANGED <<parent_locale, walk_start, locl, chain, steps>>
    /\ UNCHANGED otherThanLocale

\* get_exemplar / get_native_language_name: locl = <start>, before the loop.
WalkStart ==
    /\ lpc = "idle"
    /\ \E l \in LocaleIds :
          /\ walk_start' = l
          /\ locl' = l
          /\ chain' = <<l>>
    /\ steps' = 0
    /\ lpc' = "walking"
    /\ UNCHANGED <<parent_locale, fp_arg, fp_result>>
    /\ UNCHANGED otherThanLocale

\* One iteration of `while locl != 'root'` that finds nothing at locl:
\* locl = find_parent_locale(locl).
WalkStep ==
    /\ lpc = "walking"
    /\ locl # root
    /\ steps < MaxSteps
    /\ locl' = find_parent_locale(locl)
    /\ chain' = Append(chain, locl')
    /\ steps' = steps + 1
    /\ UNCHANGED <<parent_locale, lpc, walk_start, fp_arg, fp_result>>
    /\ UNCHANGED otherThanLocale

\* The loop condition fails: return None.
WalkEnd ==
    /\ lpc = "walking"
    /\ locl = root
    /\ lpc' = "done"
    /\ UNCHANGED <<parent_locale, walk_start, locl, chain, steps, fp_arg, fp_result>>
    /\ UNCHANGED otherThanLocale

NextLocale == CallFindParent \/ WalkStart \/ WalkStep \/ WalkEnd

SpecLocale == InitLocale /\ [][NextLocale]_vars

(***************************************************************************)
(* Claims about the locale fallback chain.                                 *)
(***************************************************************************)

\* L with its last '-'-delimited segment removed.
StripLastSegment(l) ==
    CHOOSE p \in {SubSeq(l, 1, k) : k \in 0..Len(l)} :
        /\ Len(p) < Len(l)
        /\ l[Len(p) + 1] = "-"
        /\ \A j \in (Len(p) + 2)..Len(l) : l[j] # "-"

ClaimedParent(l) ==
    IF l \in DOMAIN parent_locale THEN parent_locale[l]
    ELSE IF HasDash(l) THEN StripLastSegment(l)
    ELSE IF l # root THEN root
    ELSE None

\* C7: find_parent_locale(L) is the override of L if there is one, else L
\* without its last '-'-delimited segment if L contains '-', else 'root' for
\* a non-root L, and no parent (None) for L = 'root'.
C7_Claim ==
    lpc = "returned" => fp_result = ClaimedParent(fp_arg)

\* Every override leads to root or to a locale with fewer separators.
OverridesDescend ==
    \A l \in DOMAIN parent_locale :
        \/ parent_locale[l] = root
        \/ NumSeparators(parent_locale[l]) < NumSeparators(l)

\* C8 as stated: for every locale and every override table the walk takes
\* at most (number of '-' separators + 1) steps and visits root exactly
\* once, as the last element.
C8_Original ==
    lpc \in {"walking", "done"} =>
        /\ steps <= NumSeparators(walk_start) + 1
        /\ lpc = "done" => (Last(chain) = root /\ Count(chain, root) = 1)

\* C8 amended: the same, for override tables in which every override maps
\* its locale to root or to a locale with strictly fewer separators.  A walk
\* that still has a step to take has taken fewer than (separators + 1).
C8_Amended ==
    (OverridesDescend /\ lpc \in {"walking", "done"}) =>
        /\ steps <= NumSeparators(walk_start) + 1
        /\ (lpc = "walking" /\ locl # root) =>
               steps < NumSeparators(walk_start) + 1
        /\ lpc = "done" => (Last(chain) = root /\ Count(chain, root) = 1)

\* A finished walk over a descending table that followed an override to a
\* locale other than root and took the full (separators + 1) steps or fewer.
C8_Witness ==
    /\ lpc = "done"
    /\ OverridesDescend
    /\ \E i \in 1..(Len(chain) - 1) :
          /\ chain[i] \in DOMAIN parent_locale
          /\ chain[i + 1] # root
    /\ steps >= 2

NoOverrideOnPaChain ==
    {pa_Arab_PK, pa_Arab, pa} \cap DOMAIN parent_locale = {}

\* C9 as stated: with no override on pa-Arab-PK or its ancestors the chain
\* is pa-Arab-PK, pa-Arab, root.
C9_Original ==
    (lpc = "done" /\ walk_start = pa_Arab_PK /\ NoOverrideOnPaChain) =>
        chain = <<pa_Arab_PK, pa_Arab, root>>

\* C9 amended: stripping one segment at a time, the chain is
\* pa-Arab-PK, pa-Arab, pa, root.
C9_Amended ==
    (lpc = "done" /\ walk_start = pa_Arab_PK /\ NoOverrideOnPaChain) =>
        chain = <<pa_Arab_PK, pa_Arab, pa, root>>

C9_Witness ==
    lpc = "done" /\ walk_start = pa_Arab_PK /\ NoOverrideOnPaChain

(***************************************************************************)
(* The exemplar string parser.  A source text is a sequence of code        *)
(* points, a unit of the result a sequence of code points (one for a       *)
(* character, several or none for a {...} cluster).  Pointers are 0-based  *)
(* as in the code: source[pointer] is s[pointer + 1].                      *)
(***************************************************************************)
Space == 32
Dash == 45
LBracket == 91
Backslash == 92
RBracket == 93
LowerU == 117
LBrace == 123
RBrace == 125

\* sys.maxunicode of a narrow and of a wide Python 2 build: unichr raises
\* ValueError above it.
NarrowMaxUnicode == 65535
WideMaxUnicode == 1114111

\* c.upper() in '0123456789ABCDEF'
IsHex(c) == c \in 48..57 \/ c \in 65..70 \/ c \in 97..102

HexDigit(c) == IF c \in 48..57 THEN c - 48
               ELSE IF c \in 65..70 THEN c - 55
               ELSE c - 87

\* int(hex_code, 16)
RECURSIVE IntHex(_)
IntHex(h) ==
    IF Len(h) = 0 THEN 0
    ELSE 16 * IntHex(SubSeq(h, 1, Len(h) - 1)) + HexDigit(Last(h))

\* The while loop of read_character_at advancing end_of_hex.
RECURSIVE HexEnd(_, _)
HexEnd(source, end_of_hex) ==
    IF end_of_hex < Len(source) /\ IsHex(source[end_of_hex + 1])
    THEN HexEnd(source, end_of_hex + 1)
    ELSE end_of_hex

Raise(e) == [err |-> e, ptr |-> 0, ch |-> 0]

\* read_character_at(source, pointer) -> (pointer, character), or an error.
read_character_at(source, pointer, maxunicode) ==
    IF pointer >= Len(source) THEN Raise("IndexError")
    ELSE IF source[pointer + 1] \in {Space, Dash, LBrace, RBrace}
    THEN Raise("AssertionError")
    ELSE IF source[pointer + 1] = Backslash
    THEN IF pointer + 1 >= Len(source) THEN Raise("IndexError")
         ELSE IF source[pointer + 2] = LowerU
         THEN LET end_of_hex == HexEnd(source, pointer + 2)
                  hex_code == SubSeq(source, pointer + 3, end_of_hex)
              IN  IF end_of_hex - (pointer + 2) \notin {4, 5, 6}
                  THEN Raise("AssertionError")
                  ELSE IF IntHex(hex_code) > maxunicode
                  THEN Raise("ValueError")
                  ELSE [err |-> "", ptr |-> end_of_hex, ch |-> IntHex(hex_code)]
         ELSE [err |-> "", ptr |-> pointer + 2, ch |-> source[pointer + 2]]
    ELSE [err |-> "", ptr |-> pointer + 1, ch |-> source[pointer + 1]]

\* The inner loop of exemplar_string_to_list reading a {...} cluster:
\* returns mc_ptr at the closing brace and multi_char.
RECURSIVE ReadCluster(_, _, _, _)
ReadCluster(s, mc_ptr, multi_char, maxunicode) ==
    IF mc_ptr >= Len(s) THEN [err |-> "IndexError", ptr |-> 0, str |-> <<>>]
    ELSE IF s[mc_ptr + 1] = RBrace
    THEN [err |-> "", ptr |-> mc_ptr, str |-> multi_char]
    ELSE LET r == read_character_at(s, mc_ptr, maxunicode)
         IN  IF r.err # "" THEN [err |-> r.err, ptr |-> 0, str |-> <<>>]
             ELSE ReadCluster(s, r.ptr, Append(multi_char, r.ch), maxunicode)

\* Faulty variant: the endpoint is left out (range(previous+1, last)).
RangeUnits_exclusive(previous, last) ==
    [i \in 1..(IF last > previous THEN last - previous - 1 ELSE 0) |-> <<previous + i>>]

\* [unichr(code) for code in range(previous+1, last+1)]
RangeUnits(previous, last) ==
    [i \in 1..(IF last > previous THEN last - previous ELSE 0) |-> <<previous + i>>]

Failed(e) == [err |-> e, list |-> <<>>]

\* The main loop of exemplar_string_to_list.
RECURSIVE ParseLoop(_, _, _, _)
ParseLoop(s, pointer, return_list, maxunicode) ==
    IF pointer >= Len(s) THEN [err |-> "", list |-> return_list]
    ELSE IF s[pointer + 1] = Space
    THEN ParseLoop(s, pointer + 1, return_list, maxunicode)
    ELSE IF s[pointer + 1] = LBrace
    THEN LET m == ReadCluster(s, pointer + 1, <<>>, maxunicode)
         IN  IF m.err # "" THEN Failed(m.err)
             ELSE ParseLoop(s, m.ptr + 1, Append(return_list, m.str), maxunicode)
    ELSE IF s[pointer + 1] = Dash
    THEN IF Len(return_list) = 0 THEN Failed("IndexError")
         ELSE IF Len(Last(return_list)) # 1 THEN Failed("AssertionError")
         ELSE LET r == read_character_at(s, pointer + 1, maxunicode)
              IN  IF r.err # "" THEN Failed(r.err)
                  ELSE IF r.ch \in {Space, Backslash, LBrace, RBrace, Dash}
                  THEN Failed("AssertionError")
                  ELSE ParseLoop(s, r.ptr,
                           return_list \o RangeUnits(Last(return_list)[1], r.ch),
                           maxunicode)
    ELSE LET r == read_character_at(s, pointer, maxunicode)
         IN  IF r.err # "" THEN Failed(r.err)
             ELSE ParseLoop(s, r.ptr, Append(return_list, <<r.ch>>), maxunicode)

\* Faulty variant: the last character is dropped whether or not it is ']'.
exemplar_string_to_list_alwaysstrip(s, maxunicode) ==
    IF Len(s) = 0 THEN Failed("IndexError")
    ELSE IF s[1] # LBracket THEN Failed("AssertionError")
    ELSE IF Len(s) = 1 THEN Failed("IndexError")
    ELSE ParseLoop(SubSeq(s, 2, Len(s) - 1), 0, <<>>, maxunicode)

\* exemplar_string_to_list(exstr).
exemplar_string_to_list(s, maxunicode) ==
    IF Len(s) = 0 THEN Failed("IndexError")
    ELSE IF s[1] # LBracket THEN Failed("AssertionError")
    ELSE IF Len(s) = 1 THEN Failed("IndexError")
    ELSE IF Last(s) = RBracket
    THEN ParseLoop(SubSeq(s, 2, Len(s) - 1), 0, <<>>, maxunicode)
    ELSE ParseLoop(SubSeq(s, 2, Len(s)), 0, <<>>, maxunicode)

\* Pieces the source texts of the model are made of: a, x, space, -, {, },
\* ], a backslash, the cluster {ax}, and three u-escapes: of 0063 (the
\* letter c), of 063 (three hex digits) and of 010000 (above the narrow
\* build's range).
Tokens ==
    { <<97>>, <<120>>, <<Space>>, <<Dash>>, <<LBrace>>, <<RBrace>>,
      <<RBracket>>, <<Backslash>>,
      <<LBrace, 97, 120, RBrace>>,
      <<Backslash, LowerU, 48, 48, 54, 51>>,
      <<Backslash, LowerU, 48, 54, 51>>,
      <<Backslash, LowerU, 48, 49, 48, 48, 48, 48>> }

RECURSIVE Flatten(_)
Flatten(ss) == IF Len(ss) = 0 THEN <<>> ELSE Head(ss) \o Flatten(Tail(ss))

\* '[' followed by up to MaxTokens pieces, and the texts with no '['.
ExemplarInputs ==
    {<<LBracket>> \o Flatten(ts) : ts \in SeqsUpTo(Tokens, MaxTokens)}
        \cup {<<>>, <<97>>}

InitParse ==
    /\ MainIdle
    /\ LangIdle
    /\ ScriptIdle
    /\ LocaleIdle
    /\ ZipIdle
    /\ FamIdle
    /\ CldrIdle
    /\ exstr \in ExemplarInputs
    /\ ppc = "idle"
    /\ parse_out = [err |-> "", list |-> <<>>]

\* A call exemplar_string_to_list(exstr), on either build.
Parse ==
    /\ ppc = "idle"
    /\ \E maxunicode \in {NarrowMaxUnicode, WideMaxUnicode} :
          parse_out' = exemplar_string_to_list(exstr, maxunicode)
    /\ ppc' = "parsed"
    /\ UNCHANGED exstr
    /\ UNCHANGED otherThanParse

NextParse == Parse

SpecParse == InitParse /\ [][NextParse]_vars

(***************************************************************************)
(* Claims about the parser.                                                *)
(***************************************************************************)

\* The source text without the leading '[' and the trailing ']'.
Stripped(s) ==
    IF Len(s) >= 2 /\ Last(s) = RBracket THEN SubSeq(s, 2, Len(s) - 1)
    ELSE SubSeq(s, 2, Len(s))

\* One single-character unit per non-space character of s, in order.
RECURSIVE NonSpaceUnits(_)
NonSpaceUnits(s) ==
    IF Len(s) = 0 THEN <<>>
    ELSE IF Head(s) = Space THEN NonSpaceUnits(Tail(s))
    ELSE <<(<<Head(s)>>)>> \o NonSpaceUnits(Tail(s))

Contains(s, cs) == \E i \in 1..Len(s) : s[i] \in cs

\* C10 as stated: a valid exemplar string with no ranges and no clusters
\* (here: one that parses and holds no '-', '{' or '}' at all) yields one
\* unit per non-space character of the bracket-stripped text, in order.
C10_Original ==
    (/\ ppc = "parsed"
     /\ parse_out.err = ""
     /\ ~Contains(Stripped(exstr), {Dash, LBrace, RBrace}))
        => parse_out.list = NonSpaceUnits(Stripped(exstr))

\* C10 amended: the same for strings that hold no backslash escape either;
\* an escape (\uXXXX or \c) is several characters and yields one unit.
C10_Amended ==
    (/\ ppc = "parsed"
     /\ parse_out.err = ""
     /\ ~Contains(Stripped(exstr), {Dash, LBrace, RBrace, Backslash}))
        => parse_out.list = NonSpaceUnits(Stripped(exstr))

\* A parsed text of the amended claim's kind with a space separator, two
\* units and no closing bracket.
C10_Witness ==
    /\ ppc = "parsed"
    /\ parse_out.err = ""
    /\ ~Contains(Stripped(exstr), {Dash, LBrace, RBrace, Backslash})
    /\ Contains(Stripped(exstr), {Space})
    /\ Len(parse_out.list) = 2
    /\ Last(exstr) # RBracket

\* The '-' at position i of the stripped text s is a range operator whose
\* left operand is a single-character unit: the text before it parses, and
\* the last unit parsed is one character.
RangeAt(s, i) ==
    /\ i \in 1..Len(s)
    /\ s[i] = Dash
    /\ LET before == ParseLoop(SubSeq(s, 1, i - 1), 0, <<>>, WideMaxUnicode)
       IN  /\ before.err = ""
           /\ Len(before.list) > 0
           /\ Len(Last(before.list)) = 1

\* C11: for a range a-b whose left operand a is a single-character unit,
\* the result holds a and after it every code point after a up to and
\* including the decoded endpoint b, each a unit of its own, ascending, none
\* repeated or skipped (for b not above a there is none: a alone).
C11_Claim ==
    (ppc = "parsed" /\ parse_out.err = "") =>
        LET s == Stripped(exstr)
        IN  \A i \in 1..Len(s) :
                RangeAt(s, i) =>
                    LET before == ParseLoop(SubSeq(s, 1, i - 1), 0, <<>>,
                                            WideMaxUnicode).list
                        a == Last(before)[1]
                        b == read_character_at(s, i, WideMaxUnicode).ch
                        n == IF b > a THEN b - a ELSE 0
                    IN  /\ Len(parse_out.list) >= Len(before) + n
                        /\ \A k \in 0..n :
                              parse_out.list[Len(before) + k] = <<a + k>>

\* The text [a-c], the c written as a u-escape, was parsed into a, b, c.
C11_Witness ==
    /\ ppc = "parsed"
    /\ parse_out.err = ""
    /\ RangeAt(Stripped(exstr), 2)
    /\ parse_out.list = << <<97>>, <<98>>, <<99>> >>

(***************************************************************************)
(* CLDR lookups: get_exemplar_from_file, get_exemplar,                     *)
(* get_language_name_from_file, get_native_language_name.  A file is what  *)
(* the lookups read of it: whether it can be opened, the text of its first *)
(* exemplarCharacters element with no type attribute (if any), and the     *)
(* entries of its languages element (if any).  The lookups thread the two  *)
(* caches and the parse counts through a record st.                        *)
(***************************************************************************)
mn_Mong == <<"m","n","-","M","o","n","g">>

\* path.join(directory, 'main', locl.replace('-', '_') + '.xml')
CldrPath(directory, locl_) ==
    <<directory, [i \in 1..Len(locl_) |-> IF locl_[i] = "-" THEN "_" ELSE locl_[i]]>>

\* A file that cannot be opened (ElementTree.parse raises IOError).
MissingFile == [exists |-> FALSE, exemplar |-> <<>>, languages |-> <<>>]

FileAt(files, file_path) ==
    IF file_path \in DOMAIN files THEN files[file_path] ELSE MissingFile

\* Faulty variant: the assignment empties the cache first.
Put_forgetful(cache, key, value) == [k \in {key} |-> value]

Put(cache, key, value) ==
    [k \in DOMAIN cache \cup {key} |-> IF k = key THEN value ELSE cache[k]]

\* One more call of ElementTree.parse for this key.
Bump(parses, key) ==
    [k \in DOMAIN parses \cup {key} |->
        IF k # key THEN parses[k]
        ELSE IF key \in DOMAIN parses THEN parses[key] + 1 ELSE 1]

\* get_exemplar_from_file(cldr_file_path)
get_exemplar_from_file(cldr_file_path, st, files, maxunicode) ==
    IF cldr_file_path \in DOMAIN st.ecache
    THEN [err |-> "", ret |-> st.ecache[cldr_file_path], st |-> st]
    ELSE
    LET file == FileAt(files, cldr_file_path)
        st1 == [st EXCEPT !.eparses = Bump(st.eparses, cldr_file_path)]
    IN  IF ~file.exists
        THEN [err |-> "", ret |-> PyNone,
              st |-> [st1 EXCEPT !.ecache = Put(st.ecache, cldr_file_path, PyNone)]]
        ELSE IF file.exemplar = <<>>
        THEN [err |-> "", ret |-> PyNone, st |-> st1]
        ELSE LET r == exemplar_string_to_list(file.exemplar[1], maxunicode)
             IN  IF r.err # ""
                 THEN [err |-> r.err, ret |-> PyNone, st |-> st1]
                 ELSE [err |-> "", ret |-> Some(r.list),
                       st |-> [st1 EXCEPT !.ecache =
                                  Put(st.ecache, cldr_file_path, Some(r.list))]]

\* Faulty variant: seed is tried before common.
ExemplarDirectories_seedfirst == <<"seed", "common", "exemplars">>

\* The directories get_exemplar tries for each locale, in this order.
ExemplarDirectories == <<"common", "seed", "exemplars">>

\* The loops of get_exemplar from locale locl_ and directory number d on.
RECURSIVE ExemplarWalk(_, _, _, _, _)
ExemplarWalk(locl_, d, st, files, maxunicode) ==
    IF locl_ = root THEN [err |-> "", ret |-> PyNone, st |-> st]
    ELSE IF d > Len(ExemplarDirectories)
    THEN ExemplarWalk(find_parent_locale(locl_), 1, st, files, maxunicode)
    ELSE LET r == get_exemplar_from_file(
                      CldrPath(ExemplarDirectories[d], locl_), st, files,
                      maxunicode)
         IN  IF r.err # "" \/ Truthy(r.ret) THEN r
             ELSE ExemplarWalk(locl_, d + 1, r.st, files, maxunicode)

\* get_exemplar(language, script)
get_exemplar(language, script, st, files, maxunicode) ==
    ExemplarWalk(language \o <<"-">> \o script, 1, st, files, maxunicode)

\* tag.get('type').replace('_', '-')
Dashed(type) == [i \in 1..Len(type) |-> IF type[i] = "_" THEN "-" ELSE type[i]]

\* get_language_name_from_file(language, cldr_file_path)
get_language_name_from_file(language, cldr_file_path, st, files) ==
    LET cache_key == <<language, cldr_file_path>>
    IN  IF cache_key \in DOMAIN st.ncache
        THEN [err |-> "", ret |-> st.ncache[cache_key], st |-> st]
        ELSE
        LET file == FileAt(files, cldr_file_path)
            st1 == [st EXCEPT !.nparses = Bump(st.nparses, cache_key)]
        IN  IF ~file.exists
            THEN [err |-> "", ret |-> PyNone,
                  st |-> [st1 EXCEPT !.ncache = Put(st.ncache, cache_key, PyNone)]]
            ELSE IF file.languages = <<>>
            THEN [err |-> "", ret |-> PyNone, st |-> st1]
            ELSE LET tags == file.languages[1]
                     matching == {i \in 1..Len(tags) :
                                    Dashed(tags[i].type) = language}
                 IN  IF matching = {}
                     THEN [err |-> "", ret |-> PyNone, st |-> st1]
                     ELSE LET i == CHOOSE m \in matching :
                                       \A n \in matching : m <= n
                          IN  [err |-> "", ret |-> Some(tags[i].text),
                               st |-> [st1 EXCEPT !.ncache =
                                         Put(st.ncache, cache_key,
                                             Some(tags[i].text))]]

\* _HARD_CODED_NATIVE_NAMES
HardCodedNativeNames == [l \in {mn_Mong} |-> <<"mongol", "khele">>]

NameDirectories == <<"common", "seed">>

\* The loops of get_native_language_name from locale locl_, directory
\* number d and name number n on; names is [lang_scr, language].
RECURSIVE NameWalk(_, _, _, _, _, _)
NameWalk(names, locl_, d, n, st, files) ==
    IF locl_ = root THEN [err |-> "", ret |-> PyNone, st |-> st]
    ELSE IF d > Len(NameDirectories)
    THEN NameWalk(names, find_parent_locale(locl_), 1, 1, st, files)
    ELSE IF n > Len(names)
    THEN NameWalk(names, locl_, d + 1, 1, st, files)
    ELSE LET r == get_language_name_from_file(
                      names[n], CldrPath(NameDirectories[d], locl_), st, files)
         IN  IF r.err # "" \/ Truthy(r.ret) THEN r
             ELSE NameWalk(names, locl_, d, n + 1, r.st, files)

\* get_native_language_name(lang_scr)
get_native_language_name(lang_scr, st, files) ==
    IF lang_scr \in DOMAIN HardCodedNativeNames
    THEN [err |-> "", ret |-> Some(HardCodedNativeNames[lang_scr]), st |-> st]
    ELSE LET language == IF HasDash(lang_scr)
                         THEN SubSeq(lang_scr, 1, index(lang_scr))
                         ELSE lang_scr
         IN  NameWalk(<<lang_scr, language>>, lang_scr, 1, 1, st, files)

\* The files the lookups of the model may find: those of the locales
\* pa-Arab and pa in the three directories (every other file is missing).
CldrPaths ==
    { CldrPath(directory, l) :
        directory \in {"common", "seed", "exemplars"}, l \in {pa_Arab, pa} }

\* The exemplar text of a well-formed file, different for every file: the
\* letter a, x or c by directory, once in the file of pa-Arab, twice
\* (separated by a space) in the file of pa.
GoodText(file_path) ==
    LET letter == CASE file_path[1] = "common" -> 97
                    [] file_path[1] = "seed" -> 120
                    [] OTHER -> 99
    IN  IF Count(file_path[2], "_") > 0
        THEN <<LBracket, letter, RBracket>>
        ELSE <<LBracket, letter, Space, letter, RBracket>>

\* An exemplar text with a format error: in common/ a range whose left
\* operand is the cluster {ax}, elsewhere a u-escape of three hex digits.
MalformedText(file_path) ==
    IF file_path[1] = "common"
    THEN <<LBracket, LBrace, 97, 120, RBrace, Dash, 97, RBracket>>
    ELSE <<LBracket, Backslash, LowerU, 48, 54, 51, RBracket>>

FileKinds == {"plain", "good", "empty", "malformed"}

\* What a file of each kind holds.  plain: neither an exemplarCharacters
\* nor a languages element; good: a well-formed exemplar text and a name
\* for pa; empty: the exemplar text [] and a name for en only; malformed:
\* an exemplar text with a format error and a name for pa_Arab.
FileContent(kind, file_path) ==
    CASE kind = "plain" ->
           [exists |-> TRUE, exemplar |-> <<>>, languages |-> <<>>]
      [] kind = "good" ->
           [exists |-> TRUE, exemplar |-> <<GoodText(file_path)>>,
            languages |-> << << [type |-> pa,
                                 text |-> <<file_path[1]>> \o file_path[2]] >> >>]
      [] kind = "empty" ->
           [exists |-> TRUE, exemplar |-> << <<LBracket, RBracket>> >>,
            languages |-> << << [type |-> <<"e", "n">>,
                                 text |-> <<"English">>] >> >>]
      [] kind = "malformed" ->
           [exists |-> TRUE, exemplar |-> <<MalformedText(file_path)>>,
            languages |-> << << [type |-> <<"p","a","_","A","r","a","b">>,
                                 text |-> <<file_path[1]>> \o file_path[2]] >> >>]

\* The states of CLDR_DIR: at most MaxPresent of the files exist.
FileSystems ==
    UNION { { [file_path \in P |-> FileContent(kinds[file_path], file_path)] :
                kinds \in [P -> FileKinds] } :
            P \in {Q \in SUBSET CldrPaths : Cardinality(Q) <= MaxPresent} }

\* parent_locale as parse_supplemental_data leaves it: without an entry for
\* pa-Arab, or with the entry pa_Arab -> root of CLDR.
CldrParentTables ==
    { parse_supplemental_data(<<>>),
      parse_supplemental_data([l \in {pa_Arab} |-> root]) }

CldrState ==
    [ecache |-> exemplar_from_file_cache,
     ncache |-> language_name_from_file_cache,
     eparses |-> exemplar_parses, nparses |-> name_parses]

\* The caches are empty, nothing was looked up yet.
InitCldr ==
    /\ MainIdle
    /\ LangIdle
    /\ ScriptIdle
    /\ ParseIdle
    /\ ZipIdle
    /\ FamIdle
    /\ parent_locale \in CldrParentTables
    /\ lpc = "idle"
    /\ walk_start = None
    /\ locl = None
    /\ chain = <<>>
    /\ steps = 0
    /\ fp_arg = None
    /\ fp_result = None
    /\ cldr_files \in FileSystems
    /\ exemplar_from_file_cache = <<>>
    /\ language_name_from_file_cache = <<>>
    /\ exemplar_parses = <<>>
    /\ name_parses = <<>>
    /\ cpc = "running"
    /\ ccalls = 0
    /\ clast = NoLookup

\* The state a lookup leaves; an exception ends the run.
AfterLookup(fn, args, r) ==
    /\ exemplar_from_file_cache' = r.st.ecache
    /\ language_name_from_file_cache' = r.st.ncache
    /\ exemplar_parses' = r.st.eparses
    /\ name_parses' = r.st.nparses
    /\ clast' = [fn |-> fn, args |-> args, ret |-> r.ret, err |-> r.err]
    /\ cpc' = IF r.err = "" THEN "running" ELSE "aborted"
    /\ ccalls' = ccalls + 1
    /\ UNCHANGED cldr_files
    /\ UNCHANGED otherThanCldr

\* A call get_exemplar(language, script), on either build.
GetExemplar ==
    /\ cpc = "running"
    /\ ccalls < MaxCldrCalls
    /\ \E script \in {<<"A","r","a","b">>, <<"G","u","r","u">>},
          maxunicode \in {NarrowMaxUnicode, WideMaxUnicode} :
          AfterLookup("get_exemplar", <<pa, script>>,
                      get_exemplar(pa, script, CldrState, cldr_files,
                                   maxunicode))

\* A call get_native_language_name(lang_scr).
GetNativeLanguageName ==
    /\ cpc = "running"
    /\ ccalls < MaxCldrCalls
    /\ \E lang_scr \in {pa_Arab, mn_Mong} :
          AfterLookup("get_native_language_name", <<lang_scr>>,
                      get_native_language_name(lang_scr, CldrState,
                                               cldr_files))

NextCldr == GetExemplar \/ GetNativeLanguageName

SpecCldr == InitCldr /\ [][NextCldr]_vars

(***************************************************************************)
(* Claims about the CLDR lookups.                                          *)
(***************************************************************************)

\* The locales from l up to, not including, root.
RECURSIVE ChainBeforeRoot(_)
ChainBeforeRoot(l) ==
    IF l = root THEN <<>> ELSE <<l>> \o ChainBeforeRoot(find_parent_locale(l))

\* The files get_exemplar(language, script) is to consult, in order: for
\* each locale of the chain the partitions common, seed, exemplars.
RECURSIVE SourcesOf(_)
SourcesOf(locales) ==
    IF locales = <<>> THEN <<>>
    ELSE << CldrPath("common", Head(locales)), CldrPath("seed", Head(locales)),
            CldrPath("exemplars", Head(locales)) >> \o SourcesOf(Tail(locales))

Sources(language, script) ==
    SourcesOf(ChainBeforeRoot(language \o <<"-">> \o script))

\* The exemplar a file carries: the units of its text; none if the file is
\* missing, has no exemplar text, or has one with a format error.
ExemplarOf(file_path) ==
    LET file == FileAt(cldr_files, file_path)
    IN  IF ~file.exists \/ file.exemplar = <<>> THEN <<>>
        ELSE exemplar_string_to_list(file.exemplar[1], WideMaxUnicode).list

\* An exemplar text that does not parse.
FormatError(file_path) ==
    LET file == FileAt(cldr_files, file_path)
    IN  /\ file.exists
        /\ file.exemplar # <<>>
        /\ exemplar_string_to_list(file.exemplar[1], WideMaxUnicode).err # ""

\* The first non-empty exemplar of a sequence of files, or None.
FirstExemplar(sources) ==
    LET carrying == {i \in 1..Len(sources) : ExemplarOf(sources[i]) # <<>>}
    IN  IF carrying = {} THEN PyNone
        ELSE Some(ExemplarOf(sources[CHOOSE i \in carrying :
                                        \A j \in carrying : i <= j]))

\* C12: a format error in the exemplar text of one source does not abort
\* the run: get_exemplar treats the source as absent and goes on with the
\* remaining partitions and ancestor locales.
C12_Claim ==
    clast.fn = "get_exemplar" =>
        /\ clast.err = ""
        /\ cpc = "running"
        /\ clast.ret = FirstExemplar(Sources(clast.args[1], clast.args[2]))

\* C18: get_exemplar(language, script), when it returns, returns the first
\* non-empty exemplar met visiting the locales of the fallback chain from
\* language-script and in each locale the partitions common, seed,
\* exemplars; it returns None only if no file on the chain before root
\* carries a non-empty exemplar.
C18_Claim ==
    (clast.fn = "get_exemplar" /\ clast.err = "") =>
        clast.ret = FirstExemplar(Sources(clast.args[1], clast.args[2]))

\* A second lookup returned the exemplar of a file of the parent locale pa,
\* a partition other than common, after an empty exemplar text ([]) of
\* the locale pa-Arab was passed over.
C18_Witness ==
    /\ clast.fn = "get_exemplar"
    /\ clast.err = ""
    /\ ccalls = 2
    /\ clast.args = <<pa, <<"A","r","a","b">> >>
    /\ Truthy(clast.ret)
    /\ clast.ret \in { Some(ExemplarOf(CldrPath(d, pa))) : d \in {"seed", "exemplars"} }
    /\ \E d \in {"common", "seed", "exemplars"} :
          LET file == FileAt(cldr_files, CldrPath(d, pa_Arab))
          IN  file.exists /\ file.exemplar = << <<LBracket, RBracket>> >>

\* C19: each source file is parsed at most once per cache key (the path,
\* or the pair of language and path), whatever the file holds.
C19_Claim ==
    /\ \A k \in DOMAIN exemplar_parses : exemplar_parses[k] <= 1
    /\ \A k \in DOMAIN name_parses : name_parses[k] <= 1

(***************************************************************************)
(* Script tokens: convert_to_four_letter.  A token is the sequence of its  *)
(* characters.                                                             *)
(***************************************************************************)
ODD_SCRIPTS ==
    [script \in {<<"C","J","K">>,
                 <<"J","P">>,
                 <<"K","R">>,
                 <<"N","K","o">>,
                 <<"P","a","h","l","a","v","i">>,
                 <<"P","a","r","t","h","i","a","n">>,
                 <<"S","u","m","e","r","o","A","k","k","a","d","i","a","n","C","u","n","e","i","f","o","r","m">>,
                 <<"S","y","m","b","o","l","s">>} |->
        CASE script = <<"C","J","K">> -> <<"Q","a","a","k">>
          [] script = <<"J","P">> -> <<"J","p","a","n">>
          [] script = <<"K","R">> -> <<"K","o","r","e">>
          [] script = <<"N","K","o">> -> <<"N","k","o","o">>
          [] script = <<"P","a","h","l","a","v","i">> -> <<"P","h","l","i">>
          [] script = <<"P","a","r","t","h","i","a","n">> -> <<"P","r","t","i">>
          [] script = <<"S","u","m","e","r","o","A","k","k","a","d","i","a","n","C","u","n","e","i","f","o","r","m">> -> <<"X","s","u","x">>
          [] script = <<"S","y","m","b","o","l","s">> -> <<"Z","s","y","m">>]

\* Entries of unicode_data._script_long_name_to_code (long name of the
\* Unicode property value aliases -> ISO 15924 code).
script_long_name_to_code ==
    [script \in {<<"A","r","a","b","i","c">>,
                 <<"O","l","d","_","I","t","a","l","i","c">>,
                 <<"T","h","a","i">>,
                 <<"N","k","o">>} |->
        CASE script = <<"A","r","a","b","i","c">> -> <<"A","r","a","b">>
          [] script = <<"O","l","d","_","I","t","a","l","i","c">> -> <<"I","t","a","l">>
          [] script = <<"T","h","a","i">> -> <<"T","h","a","i">>
          [] script = <<"N","k","o">> -> <<"N","k","o","o">>]

UpperLetters == <<"A","B","C","D","E","F","G","H","I","J","K","L","M","N","O","P","Q","R","S","T","U","V","W","X","Y","Z">>
LowerLetters == <<"a","b","c","d","e","f","g","h","i","j","k","l","m","n","o","p","q","r","s","t","u","v","w","x","y","z">>

\* str.lower()
lower(str) ==
    [i \in 1..Len(str) |->
        IF \E j \in 1..26 : UpperLetters[j] = str[i]
        THEN LowerLetters[CHOOSE j \in 1..26 : UpperLetters[j] = str[i]]
        ELSE str[i]]

\* str.replace('_', '')
RECURSIVE drop_underscores(_)
drop_underscores(str) ==
    IF str = <<>> THEN <<>>
    ELSE IF Head(str) = "_" THEN drop_underscores(Tail(str))
    ELSE <<Head(str)>> \o drop_underscores(Tail(str))

\* The for loop of lines 72-74 over the long names in the order lnames;
\* there is no break, and a match replaces script for the later tests.
RECURSIVE long_name_loop(_, _)
long_name_loop(lnames, script) ==
    IF lnames = <<>> THEN script
    ELSE long_name_loop(Tail(lnames),
             IF lower(drop_underscores(Head(lnames))) = lower(script)
             THEN script_long_name_to_code[Head(lnames)]
             ELSE script)

\* The assert of line 75 and the return.
checked_code(script) ==
    IF Len(script) \in {0, 4} THEN [err |-> "", script |-> script]
    ELSE [err |-> "AssertionError", script |-> <<>>]

\* Faulty variant: the third, case- and underscore-insensitive match is
\* not tried.
convert_to_four_letter_exact(script, lnames) ==
    checked_code(IF script \in DOMAIN ODD_SCRIPTS THEN ODD_SCRIPTS[script]
                 ELSE IF script \in DOMAIN script_long_name_to_code
                 THEN script_long_name_to_code[script]
                 ELSE script)

\* convert_to_four_letter(script); lnames is the iteration order of the
\* dict of long names.
convert_to_four_letter(script, lnames) ==
    checked_code(IF script \in DOMAIN ODD_SCRIPTS THEN ODD_SCRIPTS[script]
                 ELSE IF script \in DOMAIN script_long_name_to_code
                 THEN script_long_name_to_code[script]
                 ELSE long_name_loop(lnames, script))

\* Script tokens of font file names (find_fonts passes no empty token):
\* aliases, long names as they are and in other spellings, a four-letter
\* code, unknown words.
ScriptTokens ==
    { <<"J","P">>,
      <<"N","K","o">>,
      <<"A","r","a","b","i","c">>,
      <<"O","l","d","I","t","a","l","i","c">>,
      <<"t","h","a","i">>,
      <<"o","l","d","_","i","t","a","l","i","c">>,
      <<"H","a","n","s">>,
      <<"F","o","o">>,
      <<"U","n","k","n","o","w","n">>,
      <<"S","y","m","b","o","l">> }

\* The orders a dict may yield its keys in.
LongNameOrders ==
    { order \in [1..Cardinality(DOMAIN script_long_name_to_code) ->
                    DOMAIN script_long_name_to_code] :
        \A i, j \in DOMAIN order : order[i] = order[j] => i = j }

InitScript ==
    /\ MainIdle
    /\ LangIdle
    /\ LocaleIdle
    /\ ParseIdle
    /\ ZipIdle
    /\ FamIdle
    /\ CldrIdle
    /\ script_token = <<>>
    /\ lname_order \in LongNameOrders
    /\ vpc = "idle"
    /\ four_letter = [err |-> "", script |-> <<>>]

\* find_fonts meets a file name with this script token.
ScriptCall ==
    /\ vpc = "idle"
    /\ script_token' \in ScriptTokens
    /\ vpc' = "called"
    /\ UNCHANGED <<lname_order, four_letter>>
    /\ UNCHANGED otherThanScript

\* convert_to_four_letter(script_token) returns or raises.
ScriptReturn ==
    /\ vpc = "called"
    /\ four_letter' = convert_to_four_letter(script_token, lname_order)
    /\ vpc' = "done"
    /\ UNCHANGED <<script_token, lname_order>>
    /\ UNCHANGED otherThanScript

NextScript == ScriptCall \/ ScriptReturn

SpecScript == InitScript /\ [][NextScript]_vars

\* The token matches a long name when case and underscores are ignored.
LooseMatches(script) ==
    { lname \in DOMAIN script_long_name_to_code :
        lower(drop_underscores(lname)) = lower(script) }

\* The code the three steps of the claim resolve a token to, if any.
Resolves(script) ==
    \/ script \in DOMAIN ODD_SCRIPTS
    \/ script \in DOMAIN script_long_name_to_code
    \/ LooseMatches(script) # {}

Resolved(script) ==
    IF script \in DOMAIN ODD_SCRIPTS THEN ODD_SCRIPTS[script]
    ELSE IF script \in DOMAIN script_long_name_to_code
    THEN script_long_name_to_code[script]
    ELSE script_long_name_to_code[CHOOSE lname \in LooseMatches(script) : TRUE]

FontFile(directory, family, script, variant, weight, style, platform, ext) ==
    [directory |-> directory, family |-> family, script |-> script,
     variant |-> variant, weight |-> weight, style |-> style,
     platform |-> platform, ext |-> ext]

\* The file name, kept as its parts.
FileName(file) ==
    <<file.family, file.script, file.variant, file.weight, file.style,
      file.platform, file.ext>>

\* key = family.replace(' ', '-') [+ '-' + script] [+ '-' + variant], lower
\* case: the parts that are joined.
FontKey(family, script, variant) ==
    <<family>> \o (IF script # "" THEN <<script>> ELSE <<>>)
               \o (IF variant \notin {"None", "UI"} THEN <<variant>> ELSE <<>>)

\* The body of the loop of find_fonts for a file of the LGC set (an empty
\* script group, for which the script stays '').
FontOf(file) ==
    [filepath |-> <<file.directory, FileName(file)>>,
     hint_status |-> IF file.directory = "noto_cjk" THEN "hinted"
                     ELSE file.directory,
     key |-> FontKey(file.family, file.script, file.variant),
     family |-> file.family,
     script |-> file.script,
     variant |-> file.variant,
     weight |-> IF file.weight = "" THEN "Regular" ELSE file.weight,
     style |-> file.style,
     platform |-> IF file.platform # "None" THEN "windows" ELSE "None"]

\* path.basename(font.filepath)
basename(filepath) == filepath[2]

\* fonts_are_basically_the_same(font1, font2)
fonts_are_basically_the_same(font1, font2) ==
    /\ font1.family = font2.family
    /\ font1.script = font2.script
    /\ font1.variant = font2.variant
    /\ font1.weight = font2.weight
    /\ font1.style = font2.style

(***************************************************************************)
(* The package assembler.                                                  *)
(***************************************************************************)
ComprehensiveSize == 50

Range(f) == {f[x] : x \in DOMAIN f}

\* all_hint_statuses and hint_status (lines 1005-1009)
zip_hint_status(fonts) ==
    LET all_hint_statuses == {font.hint_status : font \in fonts}
    IN  IF Cardinality(all_hint_statuses) = 1
        THEN CHOOSE h \in all_hint_statuses : TRUE
        ELSE "various"

\* Faulty variant: the comprehensive package of platform 'other' is named -hinted.
zip_suffix_other_hinted(target_platform, fonts) ==
    LET hint_status == zip_hint_status(fonts)
    IN  IF target_platform = "other"
        THEN IF hint_status = "various"
             THEN IF Cardinality(fonts) > ComprehensiveSize
                  THEN [err |-> "", suffix |-> "-hinted"]
                  ELSE [err |-> "AssertionError", suffix |-> ""]
             ELSE IF hint_status = "unhinted"
             THEN [err |-> "", suffix |-> "-unhinted"]
             ELSE [err |-> "", suffix |-> "-hinted"]
        ELSE IF target_platform = "windows"
        THEN IF hint_status \in {"various", "hinted"}
             THEN IF "windows" \in {font.platform : font \in fonts}
                  THEN [err |-> "", suffix |-> "-windows"]
                  ELSE [err |-> "", suffix |-> "-hinted"]
             ELSE [err |-> "", suffix |-> "-unhinted"]
        ELSE IF Cardinality(fonts) > ComprehensiveSize
                \/ hint_status \in {"various", "hinted"}
             THEN [err |-> "", suffix |-> "-hinted"]
             ELSE [err |-> "", suffix |-> "-unhinted"]

\* Faulty variant: the windows branch does not look at the platform tags.
zip_suffix_no_windows(target_platform, fonts) ==
    LET hint_status == zip_hint_status(fonts)
    IN  IF target_platform = "other"
        THEN IF hint_status = "various"
             THEN IF Cardinality(fonts) > ComprehensiveSize
                  THEN [err |-> "", suffix |-> ""]
                  ELSE [err |-> "AssertionError", suffix |-> ""]
             ELSE IF hint_status = "unhinted"
             THEN [err |-> "", suffix |-> "-unhinted"]
             ELSE [err |-> "", suffix |-> "-hinted"]
        ELSE IF target_platform = "windows"
        THEN IF hint_status \in {"various", "hinted"}
             THEN [err |-> "", suffix |-> "-hinted"]
             ELSE [err |-> "", suffix |-> "-unhinted"]
        ELSE IF Cardinality(fonts) > ComprehensiveSize
                \/ hint_status \in {"various", "hinted"}
             THEN [err |-> "", suffix |-> "-hinted"]
             ELSE [err |-> "", suffix |-> "-unhinted"]

\* The suffix of the package name (lines 1011-1032), or the failing assert
\* of line 1014.
zip_suffix(target_platform, fonts) ==
    LET hint_status == zip_hint_status(fonts)
    IN  IF target_platform = "other"
        THEN IF hint_status = "various"
             THEN IF Cardinality(fonts) > ComprehensiveSize
                  THEN [err |-> "", suffix |-> ""]
                  ELSE [err |-> "AssertionError", suffix |-> ""]
             ELSE IF hint_status = "unhinted"
             THEN [err |-> "", suffix |-> "-unhinted"]
             ELSE [err |-> "", suffix |-> "-hinted"]
        ELSE IF target_platform = "windows"
        THEN IF hint_status \in {"various", "hinted"}
             THEN IF "windows" \in {font.platform : font \in fonts}
                  THEN [err |-> "", suffix |-> "-windows"]
                  ELSE [err |-> "", suffix |-> "-hinted"]
             ELSE [err |-> "", suffix |-> "-unhinted"]
        ELSE IF Cardinality(fonts) > ComprehensiveSize
                \/ hint_status \in {"various", "hinted"}
             THEN [err |-> "", suffix |-> "-hinted"]
             ELSE [err |-> "", suffix |-> "-unhinted"]

\* '%s%s.zip' % (major_name, suffix): the name as its parts.
ZipBasename(major_name, suffix) == major_name \o <<suffix, ".zip">>

\* The outcome of a call that raises: nothing is written.
ZipRaise(e, b, existed, cache, files) ==
    [err |-> e, ret |-> <<>>, basename |-> b, existed |-> existed,
     cache |-> cache, files |-> files]

\* compress(zippath, recompress_zip): advzip rewrites the archive.
compress(files, b) ==
    [files EXCEPT ![b].recompressions = @ + 1]

\* Faulty variant: a package of the same name with other members is recorded and
\* written over the existing one.
create_zip_overwrite(major_name, target_platform, fonts, cache, files) ==
    LET sfx == zip_suffix(target_platform, fonts)
        zip_basename == ZipBasename(major_name, sfx.suffix)
        written == [x \in DOMAIN files \cup {zip_basename} |->
                       IF x = zip_basename
                       THEN [writes |-> IF x \in DOMAIN files
                                        THEN files[x].writes + 1 ELSE 1,
                             recompressions |-> 0]
                       ELSE files[x]]
    IN  IF sfx.err # ""
        THEN ZipRaise(sfx.err, <<>>, FALSE, cache, files)
        ELSE [err |-> "", ret |-> zip_basename, basename |-> zip_basename,
              existed |-> zip_basename \in DOMAIN files,
              cache |-> [x \in DOMAIN cache \cup {zip_basename} |->
                            IF x = zip_basename THEN fonts ELSE cache[x]],
              files |-> compress(written, zip_basename)]

\* Faulty variant: a member set that is already recorded is recorded again
\* under the new name (the assert of line 1041 is left out).
create_zip_recordtwice(major_name, target_platform, fonts, cache, files) ==
    LET sfx == zip_suffix(target_platform, fonts)
        zip_basename == ZipBasename(major_name, sfx.suffix)
        existed == zip_basename \in DOMAIN files
    IN  IF Cardinality({basename(font.filepath) : font \in fonts})
               # Cardinality(fonts)
        THEN ZipRaise("AssertionError", <<>>, FALSE, cache, files)
        ELSE IF sfx.err # ""
        THEN ZipRaise(sfx.err, <<>>, FALSE, cache, files)
        ELSE IF existed
        THEN IF zip_basename \notin DOMAIN cache
             THEN ZipRaise("KeyError", zip_basename, existed, cache, files)
             ELSE IF cache[zip_basename] # fonts
             THEN ZipRaise("AssertionError", zip_basename, existed, cache, files)
             ELSE [err |-> "", ret |-> zip_basename, basename |-> zip_basename,
                   existed |-> existed, cache |-> cache,
                   files |-> compress(files, zip_basename)]
        ELSE LET written ==
                     [x \in DOMAIN files \cup {zip_basename} |->
                         IF x = zip_basename
                         THEN [writes |-> 1, recompressions |-> 0]
                         ELSE files[x]]
             IN  [err |-> "", ret |-> zip_basename, basename |-> zip_basename,
                  existed |-> existed,
                  cache |-> [x \in DOMAIN cache \cup {zip_basename} |->
                                IF x = zip_basename THEN fonts ELSE cache[x]],
                  files |-> compress(written, zip_basename)]

\* create_zip(major_name, target_platform, fonts) run on the cache and the
\* files given: what it raises or returns, and the cache and files after.
create_zip(major_name, target_platform, fonts, cache, files) ==
    LET sfx == zip_suffix(target_platform, fonts)
        zip_basename == ZipBasename(major_name, sfx.suffix)
        existed == zip_basename \in DOMAIN files
    IN  IF Cardinality({basename(font.filepath) : font \in fonts})
               # Cardinality(fonts)
        THEN ZipRaise("AssertionError", <<>>, FALSE, cache, files)
        ELSE IF sfx.err # ""
        THEN ZipRaise(sfx.err, <<>>, FALSE, cache, files)
        ELSE IF existed
        THEN IF zip_basename \notin DOMAIN cache
             THEN ZipRaise("KeyError", zip_basename, existed, cache, files)
             ELSE IF cache[zip_basename] # fonts
             THEN ZipRaise("AssertionError", zip_basename, existed, cache, files)
             ELSE [err |-> "", ret |-> zip_basename, basename |-> zip_basename,
                   existed |-> existed, cache |-> cache,
                   files |-> compress(files, zip_basename)]
        ELSE IF fonts \in Range(cache)
        THEN ZipRaise("AssertionError", zip_basename, existed, cache, files)
        ELSE LET written ==
                     [x \in DOMAIN files \cup {zip_basename} |->
                         IF x = zip_basename
                         THEN [writes |-> 1, recompressions |-> 0]
                         ELSE files[x]]
             IN  [err |-> "", ret |-> zip_basename, basename |-> zip_basename,
                  existed |-> existed,
                  cache |-> [x \in DOMAIN cache \cup {zip_basename} |->
                                IF x = zip_basename THEN fonts ELSE cache[x]],
                  files |-> compress(written, zip_basename)]

\* Fonts create_zip is called with in SpecZip: a hinted Regular, an unhinted
\* Bold, and a hinted and an unhinted Windows build of the Regular (two files
\* of one name).
ZipFontFiles ==
    { FontFile("hinted", "Noto Sans", "", "None", "Regular", "None", "None", "ttf"),
      FontFile("unhinted", "Noto Sans", "", "None", "Bold", "None", "None", "ttf"),
      FontFile("hinted", "Noto Sans", "", "None", "Regular", "None", "-Windows", "ttf"),
      FontFile("unhinted", "Noto Sans", "", "None", "Regular", "None", "-Windows", "ttf") }

ZipFonts == {FontOf(file) : file \in ZipFontFiles}

\* The Regular fonts of BulkSize further scripts, all of one hint status
\* (with them a member set reaches the size of the comprehensive package).
BulkFonts(hint_status) ==
    { [filepath |-> <<hint_status,
                      <<"Noto Sans", "Zz" \o ToString(i), "None", "Regular",
                        "None", "None", "ttf">> >>,
       hint_status |-> hint_status,
       key |-> FontKey("Noto Sans", "Zz" \o ToString(i), "None"),
       family |-> "Noto Sans",
       script |-> "Zz" \o ToString(i),
       variant |-> "None",
       weight |-> "Regular",
       style |-> "None",
       platform |-> "None"] : i \in 10..(9 + BulkSize) }

\* The member sets of the calls: up to MaxMembers of these fonts, alone or
\* with the unhinted fonts of the further scripts; never empty.
ZipMemberSets ==
    { S \cup B :
        S \in {T \in SUBSET ZipFonts : Cardinality(T) <= MaxMembers},
        B \in {{}, BulkFonts("unhinted")} } \ {{}}

MajorNames == {<<"Noto">>}
TargetPlatforms == {"windows", "linux", "other"}

InitZip ==
    /\ MainIdle
    /\ LangIdle
    /\ ScriptIdle
    /\ LocaleIdle
    /\ ParseIdle
    /\ ZipIdle
    /\ FamIdle
    /\ CldrIdle

\* One call create_zip(major_name, target_platform, fonts); an exception
\* ends the run.
CallCreateZip ==
    /\ zpc = "running"
    /\ zcalls < MaxZipCalls
    /\ \E major_name \in MajorNames, target_platform \in TargetPlatforms,
          fonts \in ZipMemberSets :
          LET r == create_zip(major_name, target_platform, fonts,
                              zip_contents_cache, pkg_files)
          IN  /\ zip_contents_cache' = r.cache
              /\ pkg_files' = r.files
              /\ zlast' = [major_name |-> major_name,
                           target_platform |-> target_platform,
                           fonts |-> fonts, basename |-> r.basename,
                           existed |-> r.existed, err |-> r.err, ret |-> r.ret]
              /\ zpc' = IF r.err = "" THEN "running" ELSE "aborted"
    /\ zcalls' = zcalls + 1
    /\ UNCHANGED otherThanZip

NextZip == CallCreateZip

SpecZip == InitZip /\ [][NextZip]_vars

(***************************************************************************)
(* Claims about the package assembler.                                     *)
(***************************************************************************)

\* This step is a call of create_zip.
ZipCallStep == zcalls' = zcalls + 1

\* C3: when the file of the computed basename already exists, the call
\* succeeds only if the member set recorded for the basename equals the one
\* requested; if they differ it fails with an assertion error and leaves the
\* recorded member set and the package file unchanged.
C3_Consistency ==
    [][(ZipCallStep /\ zlast'.existed) =>
          /\ zlast'.err = "" =>
                 zip_contents_cache[zlast'.basename] = zlast'.fonts
          /\ zip_contents_cache[zlast'.basename] # zlast'.fonts =>
                 /\ zlast'.err = "AssertionError"
                 /\ zip_contents_cache' = zip_contents_cache
                 /\ pkg_files' = pkg_files]_vars

\* A call that failed because another member set is recorded for its name.
C3_Witness ==
    /\ zlast.existed
    /\ zlast.err = "AssertionError"
    /\ zip_contents_cache[zlast.basename] # zlast.fonts

\* C4: a second call with the arguments of a first, successful one writes
\* nothing (the archive is neither created again nor recompressed), raises
\* nothing, returns the same basename and leaves the cache unchanged.
C4_Claim ==
    [][(/\ ZipCallStep
        /\ zcalls >= 1
        /\ zlast.err = ""
        /\ zlast'.major_name = zlast.major_name
        /\ zlast'.target_platform = zlast.target_platform
        /\ zlast'.fonts = zlast.fonts) =>
          /\ zlast'.err = ""
          /\ zlast'.ret = zlast.ret
          /\ zip_contents_cache' = zip_contents_cache
          /\ pkg_files' = pkg_files]_vars

Mixed(fonts) == {"hinted", "unhinted"} \subseteq {font.hint_status : font \in fonts}
AllHinted(fonts) == \A font \in fonts : font.hint_status = "hinted"
AllUnhinted(fonts) == \A font \in fonts : font.hint_status = "unhinted"
WindowsTagged(fonts) == \E font \in fonts : font.platform = "windows"

\* The last call got as far as naming the package.
Named == zcalls >= 1 /\ zlast.basename # <<>>

\* C5 as stated: mixed hint statuses and more than 50 members give no
\* suffix, for every target platform.
C5_Original ==
    (Named /\ Mixed(zlast.fonts) /\ Cardinality(zlast.fonts) > 50) =>
        zlast.basename = zlast.major_name \o <<"", ".zip">>

\* C5 amended: mixed hint statuses and more than 50 members give no suffix
\* for the platform other; for linux they give -hinted, and for windows
\* -windows if a member carries the windows tag and -hinted if none does.
C5_Amended ==
    (Named /\ Mixed(zlast.fonts) /\ Cardinality(zlast.fonts) > 50) =>
        zlast.basename = zlast.major_name \o
            << CASE zlast.target_platform = "other" -> ""
                 [] zlast.target_platform = "linux" -> "-hinted"
                 [] OTHER -> IF WindowsTagged(zlast.fonts)
                             THEN "-windows" ELSE "-hinted",
               ".zip" >>

\* The comprehensive package of the platform other was named.
C5_Witness ==
    /\ Named
    /\ zlast.err = ""
    /\ Mixed(zlast.fonts)
    /\ Cardinality(zlast.fonts) > 50
    /\ zlast.target_platform = "other"

\* C6 as stated: when the members are not (mixed and more than 50), the
\* suffix is -windows if the platform is windows and a member carries the
\* windows tag, and otherwise -hinted when all members are hinted and
\* -unhinted when all are unhinted.
C6_Original ==
    (Named /\ ~(Mixed(zlast.fonts) /\ Cardinality(zlast.fonts) > 50)) =>
        IF zlast.target_platform = "windows" /\ WindowsTagged(zlast.fonts)
        THEN zlast.basename = zlast.major_name \o <<"-windows", ".zip">>
        ELSE IF AllHinted(zlast.fonts)
        THEN zlast.basename = zlast.major_name \o <<"-hinted", ".zip">>
        ELSE AllUnhinted(zlast.fonts) =>
                 zlast.basename = zlast.major_name \o <<"-unhinted", ".zip">>

\* C6 amended: the same, except that on windows members that are all
\* unhinted give -unhinted even when one carries the windows tag, and that
\* on linux more than 50 members give -hinted even when all are unhinted.
C6_Amended ==
    (Named /\ ~(Mixed(zlast.fonts) /\ Cardinality(zlast.fonts) > 50)) =>
        IF /\ zlast.target_platform = "windows"
           /\ WindowsTagged(zlast.fonts)
           /\ ~AllUnhinted(zlast.fonts)
        THEN zlast.basename = zlast.major_name \o <<"-windows", ".zip">>
        ELSE IF zlast.target_platform = "linux" /\ Cardinality(zlast.fonts) > 50
        THEN zlast.basename = zlast.major_name \o <<"-hinted", ".zip">>
        ELSE IF AllHinted(zlast.fonts)
        THEN zlast.basename = zlast.major_name \o <<"-hinted", ".zip">>
        ELSE AllUnhinted(zlast.fonts) =>
                 zlast.basename = zlast.major_name \o <<"-unhinted", ".zip">>

\* A package of hinted fonts, one of them a Windows build, was named for
\* the platform windows.
C6_Witness ==
    /\ Named
    /\ zlast.err = ""
    /\ zlast.target_platform = "windows"
    /\ WindowsTagged(zlast.fonts)
    /\ AllHinted(zlast.fonts)

\* No member set is recorded under two basenames.
Injective(cache) ==
    \A b1, b2 \in DOMAIN cache : cache[b1] = cache[b2] => b1 = b2

\* C22: zip_contents_cache stays injective over any sequence of create_zip
\* calls: no member set is recorded under two basenames, and a call whose
\* member set is already recorded and whose package file does not exist
\* yet fails with an assertion error and leaves the cache and the package
\* files as they were.
C22_Claim ==
    /\ Injective(zip_contents_cache)
    /\ [][/\ Injective(zip_contents_cache')
          /\ (/\ ZipCallStep
              /\ zlast'.fonts \in Range(zip_contents_cache)
              /\ ~zlast'.existed) =>
                 /\ zlast'.err = "AssertionError"
                 /\ zip_contents_cache' = zip_contents_cache
                 /\ pkg_files' = pkg_files]_vars

\* A call computed a basename that has no file yet for a member set that
\* is recorded under another basename, and failed.
C22_Witness ==
    /\ Named
    /\ ~zlast.existed
    /\ zlast.err = "AssertionError"
    /\ zlast.basename \notin DOMAIN zip_contents_cache
    /\ \E b \in DOMAIN zip_contents_cache :
          zip_contents_cache[b] = zlast.fonts


(***************************************************************************)
(* The family member selector: create_families_object(target_platform).    *)
(* One step is one iteration of its loop over all_keys, the keys taken in  *)
(* any order (the iteration order of a Python set).                        *)
(***************************************************************************)
\* members as the set comprehension of lines 1085-1087 builds it
candidate_members(fonts, key) ==
    { font \in fonts :
        /\ font.key = key
        /\ font.variant # "UI"
        /\ font.filepath[2][7] \in {"ttf", "otf"} }

\* Faulty variant: a font of another platform is not dropped.
platform_pass_keepforeign(members, target_platform) ==
    LET dropped_by(font) ==
            IF font.platform = target_platform
            THEN { alt \in members :
                     /\ fonts_are_basically_the_same(font, alt)
                     /\ font.platform # alt.platform }
            ELSE {}
        members_to_drop == UNION { dropped_by(font) : font \in members }
    IN  members \ members_to_drop

\* The platform pass (lines 1089-1101): members minus members_to_drop.
platform_pass(members, target_platform) ==
    LET dropped_by(font) ==
            IF font.platform = target_platform
            THEN { alt \in members :
                     /\ fonts_are_basically_the_same(font, alt)
                     /\ font.platform # alt.platform }
            ELSE IF font.platform # "None" THEN {font}
            ELSE {}
        members_to_drop == UNION { dropped_by(font) : font \in members }
    IN  members \ members_to_drop

\* Faulty variant: only windows asks for hinted fonts.
desired_hint_status_windows(target_platform) ==
    IF target_platform \in {"windows"} THEN "hinted" ELSE "unhinted"

\* Lines 1103-1106
desired_hint_status(target_platform) ==
    IF target_platform \in {"windows", "linux"} THEN "hinted" ELSE "unhinted"

\* Faulty variant: every font of the other hint status is dropped, also one
\* that has no equivalent of the desired status.
hint_pass_nofallback(members, target_platform) ==
    { font \in members :
        font.hint_status = desired_hint_status(target_platform) }

\* The hint pass (lines 1110-1117): members minus members_to_drop.
hint_pass(members, target_platform) ==
    LET dropped_by(font) ==
            IF font.hint_status = desired_hint_status(target_platform)
            THEN { alt \in members :
                     /\ fonts_are_basically_the_same(font, alt)
                     /\ font.hint_status # alt.hint_status }
            ELSE {}
        members_to_drop == UNION { dropped_by(font) : font \in members }
    IN  members \ members_to_drop

\* repr_members (lines 1121-1122)
repr_members(members) ==
    { font \in members : font.weight = "Regular" /\ font.style = "None" }

\* The words of the family name in the name table of the file: for the
\* fonts modelled, the words of the family the file name carries.
get_font_family_name(filepath) ==
    IF filepath[2][1] = "Noto Sans" THEN <<"Noto", "Sans">>
    ELSE IF filepath[2][1] = "Noto Serif" THEN <<"Noto", "Serif">>
    ELSE <<filepath[2][1]>>

\* Lines 1126-1127: a trailing word 'Regular' is cut off.
strip_regular(name) ==
    IF Len(name) > 0 /\ Last(name) = "Regular"
    THEN SubSeq(name, 1, Len(name) - 1)
    ELSE name

css_style(style_value) == IF style_value = "None" THEN "normal" ELSE "italic"

css_weight(weight_string) ==
    CASE weight_string = "Thin" -> 100
      [] weight_string = "Light" -> 300
      [] weight_string = "DemiLight" -> 350
      [] weight_string = "Regular" -> 400
      [] weight_string = "Medium" -> 500
      [] weight_string = "Bold" -> 700
      [] weight_string = "Black" -> 900

\* Faulty variant: three members are accepted too.
font_count_allowed_upto4(n) == n \in {1, 2, 3, 4}

\* len(font_list) in [1, 2, 4, 7] (line 1148)
font_count_allowed(n) == n \in {1, 2, 4, 7}

\* The outcome of an iteration that raises.
FamilyRaise(err, candidates, after_platform, members, name, cache, files, zip) ==
    [err |-> err, candidates |-> candidates,
     after_platform |-> after_platform, members |-> members, name |-> name,
     family_object |-> <<>>, cache |-> cache, files |-> files, zip |-> zip]

\* The body of the loop (lines 1084-1151) for one key: what it raises, the
\* member set at each stage, the family object, and the package cache and
\* files after it.  font_list is kept as the entry of each member.
family_iteration(key, target_platform, fonts, cache, files) ==
    LET candidates == candidate_members(fonts, key)
        after_platform == platform_pass(candidates, target_platform)
        members == hint_pass(after_platform, target_platform)
        reprs == repr_members(members)
    IN  IF Cardinality(reprs) # 1
        THEN FamilyRaise("AssertionError", candidates, after_platform,
                         members, <<>>, cache, files, <<>>)
        ELSE
        LET repr_member == CHOOSE font \in reprs : TRUE
            font_family_name ==
                strip_regular(get_font_family_name(repr_member.filepath))
            zip == create_zip(font_family_name, target_platform, members,
                              cache, files)
            font_list == [font \in members |->
                            [style |-> css_style(font.style),
                             weight |-> css_weight(font.weight)]]
        IN  IF zip.err # ""
            THEN FamilyRaise(zip.err, candidates, after_platform, members,
                             font_family_name, zip.cache, zip.files, <<zip>>)
            ELSE IF ~font_count_allowed(Cardinality(DOMAIN font_list))
            THEN FamilyRaise("AssertionError", candidates, after_platform,
                             members, font_family_name, zip.cache, zip.files,
                             <<zip>>)
            ELSE [err |-> "", candidates |-> candidates,
                  after_platform |-> after_platform, members |-> members,
                  name |-> font_family_name,
                  family_object |-> [name |-> font_family_name,
                                     pkg |-> zip.ret,
                                     fonts |-> font_list],
                  cache |-> zip.cache, files |-> zip.files, zip |-> <<zip>>]

\* The font files the catalogs are drawn from: Noto Sans in both hint
\* statuses, a Windows build, a second Bold with another extension, the
\* italics, a UI variant, and Noto Serif in both hint statuses.
FamFontFiles ==
    { FontFile("hinted", "Noto Sans", "", "None", "Regular", "None", "None", "ttf"),
      FontFile("unhinted", "Noto Sans", "", "None", "Regular", "None", "None", "ttf"),
      FontFile("hinted", "Noto Sans", "", "None", "Regular", "None", "-Windows", "ttf"),
      FontFile("hinted", "Noto Sans", "", "None", "Bold", "None", "None", "ttf"),
      FontFile("unhinted", "Noto Sans", "", "None", "Bold", "None", "None", "ttf"),
      FontFile("unhinted", "Noto Sans", "", "None", "Bold", "None", "None", "otf"),
      FontFile("unhinted", "Noto Sans", "", "None", "", "Italic", "None", "ttf"),
      FontFile("unhinted", "Noto Sans", "", "None", "Bold", "Italic", "None", "ttf"),
      FontFile("unhinted", "Noto Sans", "", "UI", "Regular", "None", "None", "ttf"),
      FontFile("hinted", "Noto Serif", "", "None", "Regular", "None", "None", "ttf"),
      FontFile("unhinted", "Noto Serif", "", "None", "Regular", "None", "None", "ttf") }

\* The five further weights of Noto Sans, unhinted: with the Regular and
\* the Bold they make a family of seven.
FurtherWeightFiles ==
    { FontFile("unhinted", "Noto Sans", "", "None", weight, "None", "None", "ttf") :
        weight \in {"Thin", "Light", "DemiLight", "Medium", "Black"} }

\* The catalogs find_fonts may have built.
Catalogs ==
    { {FontOf(file) : file \in S \cup B} :
        S \in SUBSET FamFontFiles, B \in {{}, FurtherWeightFiles} }

\* all_keys (line 1080)
all_keys(fonts) == {font.key : font \in fonts}

\* create_families_object(target_platform) is entered: families and
\* all_font_files are empty, no package was written yet.
InitFam ==
    /\ MainIdle
    /\ LangIdle
    /\ ScriptIdle
    /\ LocaleIdle
    /\ ParseIdle
    /\ CldrIdle
    /\ all_fonts \in Catalogs
    /\ fam_platform \in TargetPlatforms
    /\ keys_left = all_keys(all_fonts)
    /\ families = <<>>
    /\ all_font_files = {}
    /\ fpc = "running"
    /\ flast = NoIteration
    /\ zip_contents_cache = <<>>
    /\ pkg_files = <<>>
    /\ zpc = "running"
    /\ zcalls = 0
    /\ zlast = NoCall

\* One iteration of the loop; an exception ends the run.
FamilyIteration ==
    /\ fpc = "running"
    /\ \E key \in keys_left :
          LET r == family_iteration(key, fam_platform, all_fonts,
                                    zip_contents_cache, pkg_files)
          IN  /\ keys_left' = keys_left \ {key}
              /\ all_font_files' = all_font_files \cup r.members
              /\ flast' = [key |-> key, candidates |-> r.candidates,
                           after_platform |-> r.after_platform,
                           members |-> r.members, err |-> r.err]
              /\ families' =
                    IF r.err # "" THEN families
                    ELSE [k \in DOMAIN families \cup {key} |->
                            IF k = key THEN r.family_object ELSE families[k]]
              /\ fpc' = IF r.err = "" THEN "running" ELSE "aborted"
              /\ zip_contents_cache' = r.cache
              /\ pkg_files' = r.files
              /\ IF r.zip = <<>>
                 THEN UNCHANGED <<zpc, zcalls, zlast>>
                 ELSE /\ zcalls' = zcalls + 1
                      /\ zpc' = IF r.zip[1].err = "" THEN "running"
                                ELSE "aborted"
                      /\ zlast' = [major_name |-> r.name,
                                   target_platform |-> fam_platform,
                                   fonts |-> r.members,
                                   basename |-> r.zip[1].basename,
                                   existed |-> r.zip[1].existed,
                                   err |-> r.zip[1].err,
                                   ret |-> r.zip[1].ret]
    /\ UNCHANGED <<all_fonts, fam_platform>>
    /\ UNCHANGED otherThanFam

\* The loop is over: return families, all_font_files (line 1152).
FamilyReturn ==
    /\ fpc = "running"
    /\ keys_left = {}
    /\ fpc' = "returned"
    /\ UNCHANGED <<all_fonts, fam_platform, keys_left, families,
                   all_font_files, flast>>
    /\ UNCHANGED zipVars
    /\ UNCHANGED otherThanFam

NextFam == FamilyIteration \/ FamilyReturn

SpecFam == InitFam /\ [][NextFam]_vars


(***************************************************************************)
(* Claims about the family member selector.                                *)
(***************************************************************************)

\* Two of these fonts are the same in weight and style.
SamePair(font1, font2) ==
    font1.weight = font2.weight /\ font1.style = font2.style

\* C1: for every catalog and target platform, the member set of a family
\* that the platform pass and the hint pass leave holds at most one font for
\* each pair of weight and style; stated for the families whose iteration
\* ends without an exception.
C1_Claim ==
    (fpc \in {"running", "returned"} /\ flast.key # <<>>) =>
        \A font1, font2 \in flast.members :
            SamePair(font1, font2) => font1 = font2

\* The member set the two passes leave of the candidates of a key.
ResolvedMembers(key) ==
    hint_pass(platform_pass(candidate_members(all_fonts, key), fam_platform),
              fam_platform)

\* The two conditions on a member set.
ConditionsHold(members) ==
    /\ Cardinality(members) \in {1, 2, 4, 7}
    /\ Cardinality({font \in members :
                       font.weight = "Regular" /\ font.style = "None"}) = 1

\* C2: when create_families_object has returned, every family of the result
\* has 1, 2, 4 or 7 members and exactly one Regular upright member; for a
\* catalog in which some family fails either condition the run does not
\* return, it ends with an assertion error.
C2_Claim ==
    /\ fpc = "returned" =>
          /\ DOMAIN families = all_keys(all_fonts)
          /\ \A key \in DOMAIN families :
                /\ Cardinality(DOMAIN families[key].fonts) \in {1, 2, 4, 7}
                /\ DOMAIN families[key].fonts = ResolvedMembers(key)
          /\ \A key \in all_keys(all_fonts) :
                ConditionsHold(ResolvedMembers(key))
    /\ fpc = "aborted" => flast.err = "AssertionError"
    /\ (fpc = "running" /\ keys_left = {}) =>
          \A key \in all_keys(all_fonts) : ConditionsHold(ResolvedMembers(key))

\* A run that returned two families, one of them of seven members.
C2_Witness ==
    /\ fpc = "returned"
    /\ Cardinality(DOMAIN families) = 2
    /\ \E key \in DOMAIN families :
          Cardinality(DOMAIN families[key].fonts) = 7

\* A run that the member count of a family ended: three members, one of
\* them the Regular upright one.
C2_WitnessAbort ==
    /\ fpc = "aborted"
    /\ Cardinality(flast.members) = 3
    /\ Cardinality(repr_members(flast.members)) = 1


\* An iteration of the loop has been made; its passes ran on flast.
Iterated == fpc # "idle" /\ flast.key # <<>>

\* C15: after the platform pass for target platform P the member set holds
\* no font tagged for a platform other than P and no font that is basically
\* the same as a P-tagged candidate but has another platform tag or none;
\* every other candidate is kept.
C15_Claim ==
    Iterated =>
        flast.after_platform =
            { font \in flast.candidates :
                \/ font.platform = fam_platform
                \/ /\ font.platform = "None"
                   /\ ~\E alt \in flast.candidates :
                         /\ alt.platform = fam_platform
                         /\ fonts_are_basically_the_same(alt, font) }

\* For windows, an untagged Regular gave way to the Windows build; a
\* candidate of another weight was kept.
C15_Witness ==
    /\ Iterated
    /\ fam_platform = "windows"
    /\ \E font \in flast.after_platform : font.platform = "windows"
    /\ \E font \in flast.candidates \ flast.after_platform :
          font.platform = "None"
    /\ \E font \in flast.after_platform : font.platform = "None"

\* The hint status the claim names for a target platform.
Desired == IF fam_platform \in {"windows", "linux"} THEN "hinted" ELSE "unhinted"

\* C16: the desired hint status is hinted for windows and linux, unhinted
\* otherwise; after the hint pass every member of the desired status that
\* survived the platform pass remains, and a member of the other status
\* remains only if no basically-the-same member of the desired status
\* survived the platform pass (and remains then).
C16_Claim ==
    Iterated =>
        flast.members =
            { font \in flast.after_platform :
                \/ font.hint_status = Desired
                \/ ~\E alt \in flast.after_platform :
                      /\ alt.hint_status = Desired
                      /\ fonts_are_basically_the_same(alt, font) }

\* For linux, an unhinted font gave way to its hinted equivalent and
\* another unhinted font, which has none, was kept.
C16_Witness ==
    /\ Iterated
    /\ fam_platform = "linux"
    /\ \E font \in flast.after_platform \ flast.members :
          font.hint_status = "unhinted"
    /\ \E font \in flast.members : font.hint_status = "unhinted"
    /\ \E font \in flast.members : font.hint_status = "hinted"

\* C17: for a family whose resolved member count is not 1, 2, 4 or 7 the
\* run aborts without a package having been written for that family.
C17_Claim ==
    (fpc = "aborted" /\ Cardinality(flast.members) \notin {1, 2, 4, 7}) =>
        /\ flast.members \notin Range(zip_contents_cache)
        /\ ~\E b \in DOMAIN pkg_files :
              b \in DOMAIN zip_contents_cache
                 /\ zip_contents_cache[b] = flast.members

\* A candidate the platform pass may keep: untagged, or tagged for the
\* target platform.
Eligible(font) == font.platform \in {"None", fam_platform}

\* C21: for every catalog, family key and target platform, every pair of
\* weight and style that has a candidate that is untagged or tagged for the
\* target platform still has a member after both passes; a font of the
\* hint status that is not the desired one stays a member when the
\* platform pass left no font of the desired status equivalent to it.
C21_Claim ==
    Iterated =>
        /\ \A font \in flast.candidates :
              Eligible(font) =>
                  \E member \in flast.members : SamePair(font, member)
        /\ \A font \in flast.after_platform :
              (/\ font.hint_status # Desired
               /\ ~\E alt \in flast.after_platform :
                     /\ SamePair(font, alt)
                     /\ alt.hint_status = Desired) =>
                  font \in flast.members

\* For linux, the hint pass dropped the unhinted Regular for the hinted
\* one, and kept an unhinted font of another weight or style as the only
\* member of its pair.
C21_Witness ==
    /\ Iterated
    /\ fam_platform = "linux"
    /\ \E font \in flast.after_platform \ flast.members :
          font.hint_status = "unhinted"
    /\ \E font \in flast.members :
          /\ font.hint_status = "unhinted"
          /\ \A other \in flast.candidates :
                SamePair(font, other) => other = font


(***************************************************************************)
(* The three caches in one run: lookups and package calls in any order,    *)
(* MaxRunOps of them.                                                      *)
(***************************************************************************)
\* Two states of CLDR_DIR that hold files of every kind.
CacheFileSystems ==
    { [file_path \in {CldrPath("common", pa_Arab), CldrPath("seed", pa_Arab),
                      CldrPath("common", pa), CldrPath("exemplars", pa)} |->
          FileContent(CASE file_path = CldrPath("common", pa_Arab) -> "plain"
                        [] file_path = CldrPath("seed", pa_Arab) -> "empty"
                        [] file_path = CldrPath("common", pa) -> "good"
                        [] OTHER -> "malformed",
                      file_path)],
      [file_path \in {CldrPath("common", pa_Arab), CldrPath("seed", pa)} |->
          FileContent(IF file_path = CldrPath("common", pa_Arab)
                      THEN "good" ELSE "malformed",
                      file_path)] }

\* The member sets of the package calls of such a run.
CachePackages ==
    { T \in SUBSET {font \in ZipFonts : font.platform = "None"} : T # {} }

InitCaches ==
    /\ MainIdle
    /\ LangIdle
    /\ ScriptIdle
    /\ LocaleIdle
    /\ ParseIdle
    /\ ZipIdle
    /\ FamIdle
    /\ cldr_files \in CacheFileSystems
    /\ exemplar_from_file_cache = <<>>
    /\ language_name_from_file_cache = <<>>
    /\ exemplar_parses = <<>>
    /\ name_parses = <<>>
    /\ cpc = "running"
    /\ ccalls = 0
    /\ clast = NoLookup

\* One of the lookups, while the run goes on.
RunLookup ==
    /\ ccalls + zcalls < MaxRunOps
    /\ zpc = "running"
    /\ NextCldr

\* A call of create_zip, while the run goes on.
RunPackage ==
    /\ ccalls + zcalls < MaxRunOps
    /\ cpc = "running"
    /\ CallCreateZip
    /\ zlast'.fonts \in CachePackages

NextCaches == RunLookup \/ RunPackage

SpecCaches == InitCaches /\ [][NextCaches]_vars

\* Every key of old is a key of new, with the same value.
AppendOnly(old, new) ==
    \A k \in DOMAIN old : k \in DOMAIN new /\ new[k] = old[k]

\* C20: exemplar_from_file_cache, language_name_from_file_cache and
\* zip_contents_cache are append-only with write-once keys: no step changes
\* the value of a key that is present or removes the key.
C20_Claim ==
    [][/\ AppendOnly(exemplar_from_file_cache, exemplar_from_file_cache')
       /\ AppendOnly(language_name_from_file_cache,
                     language_name_from_file_cache')
       /\ AppendOnly(zip_contents_cache, zip_contents_cache')]_vars

\* All three caches hold an entry, after three operations.
C20_Witness ==
    /\ ccalls + zcalls = 3
    /\ exemplar_from_file_cache # <<>>
    /\ language_name_from_file_cache # <<>>
    /\ zip_contents_cache # <<>>


(***************************************************************************)
(* Language objects: create_langs_object.  A lang_scr is the sequence of   *)
(* its parts between dashes (a language, or a language and a script); its  *)
(* English name and the rtl flag, table lookups that write nothing, are    *)
(* left out of the language object.  One step is one iteration of the loop *)
(* over all_used_lang_scrs, taken in any order.                            *)
(***************************************************************************)
EXEMPLAR_CUTOFF_SIZE == 50

\* The characters of the languages and scripts of the model.
Spell ==
    [str \in {"ain", "ryu", "ja", "en", "dv", "und", "Kana", "Jpan", "Latn", "Thaa"} |->
        CASE str = "ain" -> <<"a","i","n">>
          [] str = "ryu" -> <<"r","y","u">>
          [] str = "ja" -> <<"j","a">>
          [] str = "en" -> <<"e","n">>
          [] str = "dv" -> <<"d","v">>
          [] str = "und" -> <<"u","n","d">>
          [] str = "Kana" -> <<"K","a","n","a">>
          [] str = "Jpan" -> <<"J","p","a","n">>
          [] str = "Latn" -> <<"L","a","t","n">>
          [] str = "Thaa" -> <<"T","h","a","a">>]

\* The string lang_scr, as get_native_language_name receives it.
LangScrString(lang_scr) ==
    IF Len(lang_scr) = 1 THEN Spell[lang_scr[1]]
    ELSE Spell[lang_scr[1]] \o <<"-">> \o Spell[lang_scr[2]]

\* Entries of likely_subtag_data: language -> likely script.
likely_script ==
    [language \in {"ain", "ja", "en", "dv"} |->
        CASE language = "ain" -> "Kana"
          [] language = "ja" -> "Jpan"
          [] language = "en" -> "Latn"
          [] language = "dv" -> "Thaa"]

\* find_likely_script(language)
find_likely_script(language) == likely_script[language]

\* Faulty variant: the script is left as it is.
rewrite_kana_never(script) == script

\* Lines 885-886: if script == 'Kana': script = 'Jpan'
rewrite_kana(script) == IF script = "Kana" THEN "Jpan" ELSE script

\* sample_text_from_exemplar(exemplar), for exemplars of letters.
sample_text_from_exemplar(exemplar) ==
    SubSeq(exemplar, 1, IF Len(exemplar) < EXEMPLAR_CUTOFF_SIZE
                        THEN Len(exemplar) ELSE EXEMPLAR_CUTOFF_SIZE)

\* Lines 340-347 of get_sample_text: the sample text, given the outcome r
\* of get_exemplar(language, script).
sample_text_after_exemplar(r, script, samples) ==
    IF r.err # "" THEN [err |-> r.err, ret |-> <<>>, st |-> r.st]
    ELSE IF ~r.ret.none
    THEN [err |-> "", ret |-> <<"exemplar", sample_text_from_exemplar(r.ret.val)>>,
          st |-> r.st]
    ELSE IF <<"und", script>> \in samples
    THEN [err |-> "", ret |-> <<"file", "und", script>>, st |-> r.st]
    ELSE [err |-> "", ret |-> <<>>, st |-> r.st]

\* get_sample_text(language, script)
get_sample_text(language, script, samples, st, files, maxunicode) ==
    IF <<language, script>> \in samples
    THEN [err |-> "", ret |-> <<"file", language, script>>, st |-> st]
    ELSE sample_text_after_exemplar(
             get_exemplar(Spell[language], Spell[script], st, files, maxunicode),
             script, samples)

\* The outcome of an iteration that raises.
LangRaise(err, script, st, ftl) ==
    [err |-> err, script |-> script, lang_object |-> <<>>, st |-> st,
     family_to_langs |-> ftl]

\* Lines 901-913 of the loop: the language object and family_to_langs, given
\* the native name and the outcome sample of get_sample_text.
lang_with_sample(lang_scr, resolved, script, native_name, sample, fonts, ftl) ==
    LET query_script == IF script \in {"Latn", "Grek", "Cyrl"} THEN ""
                        ELSE script
        family_keys == {font.key : font \in
                           {f \in fonts : f.script = query_script}}
    IN  IF sample.err # ""
        THEN LangRaise(sample.err, resolved, sample.st, ftl)
        ELSE [err |-> "", script |-> resolved,
              lang_object |-> [nameNative |-> native_name,
                               sample |-> sample.ret,
                               families |-> family_keys],
              st |-> sample.st,
              family_to_langs |->
                  [family \in DOMAIN ftl \cup family_keys |->
                      (IF family \in DOMAIN ftl THEN ftl[family] ELSE {})
                        \cup (IF family \in family_keys
                              THEN {lang_scr} ELSE {})]]

\* Lines 885-913 of the loop: the Kana rewrite, the check of the script
\* against supported_scripts and the sample text, given the outcome native
\* of get_native_language_name(lang_scr).
lang_with_name(lang_scr, resolved, native, fonts, supported, samples, files, ftl, maxunicode) ==
    LET script == rewrite_kana(resolved)
    IN  IF script \notin supported
        THEN IF script \notin {"Bass", "Orya", "Plrd", "Thaa", "Tibt"}
             THEN LangRaise("AssertionError", resolved, native.st, ftl)
             ELSE [err |-> "", script |-> resolved,
                   lang_object |-> [nameNative |-> native.ret,
                                    sample |-> <<>>, families |-> {}],
                   st |-> native.st, family_to_langs |-> ftl]
        ELSE lang_with_sample(lang_scr, resolved, script, native.ret,
                 get_sample_text(lang_scr[1], script, samples, native.st,
                                 files, maxunicode),
                 fonts, ftl)

\* The body of the loop of create_langs_object (lines 871-913) for one
\* lang_scr: what it raises, the script it resolved, the language object,
\* and the caches and family_to_langs after it.
lang_iteration(lang_scr, fonts, supported, samples, st, files, ftl, maxunicode) ==
    IF Len(lang_scr) > 2 THEN LangRaise("ValueError", "", st, ftl)
    ELSE IF Len(lang_scr) = 1 /\ lang_scr[1] \notin DOMAIN likely_script
    THEN LangRaise("KeyError", "", st, ftl)
    ELSE lang_with_name(lang_scr,
             IF Len(lang_scr) = 2 THEN lang_scr[2]
             ELSE find_likely_script(lang_scr[1]),
             get_native_language_name(LangScrString(lang_scr), st, files),
             fonts, supported, samples, files, ftl, maxunicode)

\* The body of the loop of find_fonts for a file whose script token
\* converts to the code script.
ScriptFontOf(file, script) ==
    [FontOf(file) EXCEPT !.script = script,
                         !.key = FontKey(file.family, script, file.variant)]

\* Fonts of the catalogs: the Japanese font of noto_cjk, a font of the
\* script Kana, and the Regular of the LGC set.
LangFonts ==
    { ScriptFontOf(FontFile("noto_cjk", "Noto Sans", "JP", "None", "Regular",
                            "None", "None", "otf"), "Jpan"),
      ScriptFontOf(FontFile("unhinted", "Noto Sans", "Katakana", "None",
                            "Regular", "None", "None", "ttf"), "Kana"),
      FontOf(FontFile("unhinted", "Noto Sans", "", "None", "Regular", "None",
                      "None", "ttf")) }

\* supported_scripts as find_fonts fills it (lines 126-131).
SupportedScriptsOf(fonts) ==
    UNION { IF font.script = "" THEN {"Latn", "Grek", "Cyrl"}
            ELSE {font.script} : font \in fonts }

\* The lang_scrs create_regions_object may have collected.
LangScrs == { <<"ain">>, <<"ryu", "Kana">>, <<"ja">>, <<"en">>, <<"dv">> }

\* The states of CLDR_DIR: no file of these locales, or a file of ain.
LangFileSystems ==
    { <<>>,
      [file_path \in {CldrPath("seed", <<"a","i","n">>)} |->
          FileContent("good", file_path)] }

InitLangs ==
    /\ MainIdle
    /\ ScriptIdle
    /\ LocaleIdle
    /\ ParseIdle
    /\ ZipIdle
    /\ all_fonts \in SUBSET LangFonts
    /\ fam_platform = ""
    /\ keys_left = {}
    /\ families = <<>>
    /\ all_font_files = {}
    /\ fpc = "idle"
    /\ flast = NoIteration
    /\ cldr_files \in LangFileSystems
    /\ exemplar_from_file_cache = <<>>
    /\ language_name_from_file_cache = <<>>
    /\ exemplar_parses = <<>>
    /\ name_parses = <<>>
    /\ cpc = "running"
    /\ ccalls = 0
    /\ clast = NoLookup
    /\ all_used_lang_scrs \in
          {S \in SUBSET LangScrs : S # {} /\ Cardinality(S) <= MaxLangs}
    /\ supported_scripts = SupportedScriptsOf(all_fonts)
    /\ sample_texts \in SUBSET {<<"ain", "Jpan">>, <<"und", "Jpan">>}
    /\ langs_left = all_used_lang_scrs
    /\ langs = <<>>
    /\ family_to_langs = <<>>
    /\ gpc = "running"
    /\ glast = NoLang

\* The state an iteration with outcome r leaves; an exception ends the run.
AfterLang(lang_scr, r) ==
    /\ langs_left' = langs_left \ {lang_scr}
    /\ glast' = [lang_scr |-> lang_scr, script |-> r.script, err |-> r.err]
    /\ langs' = IF r.err # "" THEN langs
                ELSE [l \in DOMAIN langs \cup {lang_scr} |->
                        IF l = lang_scr THEN r.lang_object ELSE langs[l]]
    /\ family_to_langs' = r.family_to_langs
    /\ gpc' = IF r.err = "" THEN "running" ELSE "aborted"
    /\ exemplar_from_file_cache' = r.st.ecache
    /\ language_name_from_file_cache' = r.st.ncache
    /\ exemplar_parses' = r.st.eparses
    /\ name_parses' = r.st.nparses
    /\ UNCHANGED <<all_used_lang_scrs, supported_scripts, sample_texts>>
    /\ UNCHANGED <<cldr_files, cpc, ccalls, clast>>
    /\ UNCHANGED <<localeVars, parseVars, zipVars, famVars, scriptVars,
                   mainVars>>

\* One iteration of the loop, on either build.
LangIteration ==
    /\ gpc = "running"
    /\ \E lang_scr \in langs_left,
          maxunicode \in {NarrowMaxUnicode, WideMaxUnicode} :
          AfterLang(lang_scr,
                    lang_iteration(lang_scr, all_fonts, supported_scripts,
                                   sample_texts, CldrState, cldr_files,
                                   family_to_langs, maxunicode))

\* The loop is over: return langs (line 914).
LangReturn ==
    /\ gpc = "running"
    /\ langs_left = {}
    /\ gpc' = "returned"
    /\ UNCHANGED <<all_used_lang_scrs, supported_scripts, sample_texts,
                   langs_left, langs, family_to_langs, glast>>
    /\ UNCHANGED <<localeVars, parseVars, zipVars, famVars, scriptVars,
                   cldrVars, mainVars>>

NextLangs == LangIteration \/ LangReturn

SpecLangs == InitLangs /\ [][NextLangs]_vars

\* The families of the fonts of a script.
FamiliesOfScript(script) ==
    {font.key : font \in {f \in all_fonts : f.script = script}}

\* C14: a language whose resolved script is Kana has the script rewritten
\* to Jpan before the supported-script check and before the family lookup:
\* the check is made for Jpan, the families of the language are those of
\* the Jpan fonts, and the language is recorded for no other family.
C14_Claim ==
    (gpc # "idle" /\ glast.script = "Kana") =>
        /\ "Jpan" \notin supported_scripts => glast.err = "AssertionError"
        /\ "Jpan" \in supported_scripts =>
              /\ glast.err = ""
              /\ langs[glast.lang_scr].families = FamiliesOfScript("Jpan")
              /\ \A family \in DOMAIN family_to_langs :
                    glast.lang_scr \in family_to_langs[family] =>
                        family \in FamiliesOfScript("Jpan")

\* Ainu (likely script Kana) was given the family of the Japanese font,
\* in a catalog that also holds a font of the script Kana.
C14_Witness ==
    /\ gpc # "idle"
    /\ glast = [lang_scr |-> <<"ain">>, script |-> "Kana", err |-> ""]
    /\ FamiliesOfScript("Kana") # {}
    /\ langs[<<"ain">>].families = FamiliesOfScript("Jpan")
    /\ FamiliesOfScript("Jpan") # {}


(***************************************************************************)
(* The loop of main over the target platforms (lines 1224-1268).  Each     *)
(* pass runs create_families_object and create_package_object on the       *)
(* catalog find_fonts built once; zip_contents_cache and the package files *)
(* written stay from one pass to the next.  The language objects, which    *)
(* do not depend on the target platform, are taken to hold what the hot    *)
(* patches remove.                                                         *)
(***************************************************************************)
\* The list of line 1224.
TargetPlatformList == <<"windows", "linux", "other">>

\* The Regular of Noto Kufi Arabic, whose family the hot patches address.
KufiFont ==
    ScriptFontOf(FontFile("hinted", "Noto Kufi", "Arabic", "None", "Regular",
                          "None", "None", "ttf"), "Arab")

\* The files of Noto Sans the catalogs are drawn from: the Regular and its
\* Windows build, and the Bold, each in both hint statuses.
MainFontFiles ==
    { FontFile(directory, "Noto Sans", "", "None", weight_platform[1], "None",
               weight_platform[2], "ttf") :
        directory \in {"hinted", "unhinted"},
        weight_platform \in {<<"Regular", "None">>, <<"Regular", "-Windows">>,
                             <<"Bold", "None">>} }

\* The catalogs find_fonts may have built: up to MaxCatalog of these files,
\* with or without Noto Kufi Arabic.
MainCatalogs ==
    { {FontOf(file) : file \in S} \cup K :
        S \in {T \in SUBSET MainFontFiles :
                 T # {} /\ Cardinality(T) <= MaxCatalog},
        K \in {{}, {KufiFont}} }

\* main has removed and made OUTPUT_DIR (lines 1203-1214), find_fonts has
\* built the catalog, and the first pass enters create_families_object.
InitMain ==
    /\ LangIdle
    /\ ScriptIdle
    /\ LocaleIdle
    /\ ParseIdle
    /\ CldrIdle
    /\ ZipIdle
    /\ all_fonts \in MainCatalogs
    /\ platform_index = 1
    /\ fam_platform = TargetPlatformList[1]
    /\ keys_left = all_keys(all_fonts)
    /\ families = <<>>
    /\ all_font_files = {}
    /\ fpc = "running"
    /\ flast = NoIteration
    /\ mpc = "families"
    /\ selections = {}

\* The state an iteration of the loop of create_families_object with
\* outcome r leaves; an exception ends the run.
AfterFamily(key, r) ==
    /\ keys_left' = keys_left \ {key}
    /\ all_font_files' = all_font_files \cup r.members
    /\ flast' = [key |-> key, candidates |-> r.candidates,
                 after_platform |-> r.after_platform,
                 members |-> r.members, err |-> r.err]
    /\ families' =
          IF r.err # "" THEN families
          ELSE [k \in DOMAIN families \cup {key} |->
                  IF k = key THEN r.family_object ELSE families[k]]
    /\ fpc' = IF r.err = "" THEN "running" ELSE "aborted"
    /\ mpc' = IF r.err = "" THEN "families" ELSE "aborted"
    /\ zip_contents_cache' = r.cache
    /\ pkg_files' = r.files
    /\ IF r.zip = <<>>
       THEN UNCHANGED <<zpc, zcalls, zlast, selections>>
       ELSE /\ zcalls' = zcalls + 1
            /\ zpc' = IF r.zip[1].err = "" THEN "running" ELSE "aborted"
            /\ zlast' = [major_name |-> r.name,
                         target_platform |-> fam_platform,
                         fonts |-> r.members,
                         basename |-> r.zip[1].basename,
                         existed |-> r.zip[1].existed,
                         err |-> r.zip[1].err,
                         ret |-> r.zip[1].ret]
            /\ selections' =
                  IF r.zip[1].basename = <<>> THEN selections
                  ELSE selections \cup
                         {[platform |-> fam_platform,
                           basename |-> r.zip[1].basename,
                           fonts |-> r.members]}
    /\ UNCHANGED <<all_fonts, fam_platform, platform_index>>
    /\ UNCHANGED <<localeVars, parseVars, cldrVars, scriptVars, langVars>>

\* One iteration of the loop of create_families_object (lines 1231-1232).
MainFamilyIteration ==
    /\ mpc = "families"
    /\ \E key \in keys_left :
          AfterFamily(key, family_iteration(key, fam_platform, all_fonts,
                                            zip_contents_cache, pkg_files))

\* create_families_object returns (line 1152).
MainFamiliesReturn ==
    /\ mpc = "families"
    /\ keys_left = {}
    /\ fpc' = "returned"
    /\ mpc' = "package"
    /\ UNCHANGED <<all_fonts, fam_platform, keys_left, families,
                   all_font_files, flast, platform_index, selections>>
    /\ UNCHANGED zipVars
    /\ UNCHANGED <<localeVars, parseVars, cldrVars, scriptVars, langVars>>

\* The state a call of create_zip with outcome r leaves.
AfterPackage(r) ==
    /\ zip_contents_cache' = r.cache
    /\ pkg_files' = r.files
    /\ zcalls' = zcalls + 1
    /\ zpc' = IF r.err = "" THEN "running" ELSE "aborted"
    /\ zlast' = [major_name |-> <<"Noto">>, target_platform |-> fam_platform,
                 fonts |-> all_font_files, basename |-> r.basename,
                 existed |-> r.existed, err |-> r.err, ret |-> r.ret]
    /\ mpc' = IF r.err = "" THEN "patches" ELSE "aborted"
    /\ UNCHANGED <<famVars, platform_index, selections>>
    /\ UNCHANGED <<localeVars, parseVars, cldrVars, scriptVars, langVars>>

\* create_package_object(all_font_files, target_platform) (lines 1235-1236
\* and 1190-1191): the comprehensive package.
MainPackage ==
    /\ mpc = "package"
    /\ AfterPackage(create_zip(<<"Noto">>, fam_platform, all_font_files,
                               zip_contents_cache, pkg_files))

\* The hot patches (lines 1238-1250) look up the family noto-kufi-arab: a
\* KeyError ends the run if the catalog has no such family.  Then the pass
\* ends, and the loop goes on to the next target platform, or is over.
MainPatches ==
    /\ mpc = "patches"
    /\ IF KufiFont.key \notin DOMAIN families
       THEN /\ mpc' = "aborted"
            /\ UNCHANGED <<famVars, platform_index>>
       ELSE IF platform_index < Len(TargetPlatformList)
       THEN /\ platform_index' = platform_index + 1
            /\ fam_platform' = TargetPlatformList[platform_index + 1]
            /\ keys_left' = all_keys(all_fonts)
            /\ families' = <<>>
            /\ all_font_files' = {}
            /\ fpc' = "running"
            /\ flast' = NoIteration
            /\ mpc' = "families"
            /\ UNCHANGED all_fonts
       ELSE /\ mpc' = "done"
            /\ UNCHANGED <<famVars, platform_index>>
    /\ UNCHANGED selections
    /\ UNCHANGED zipVars
    /\ UNCHANGED <<localeVars, parseVars, cldrVars, scriptVars, langVars>>

NextMain ==
    MainFamilyIteration \/ MainFamiliesReturn \/ MainPackage \/ MainPatches

SpecMain == InitMain /\ [][NextMain]_vars

\* The selector post-conditions hold for every key of the catalog on every
\* target platform: one Regular upright member, and 1, 2, 4 or 7 members.
SelectorPostConditions(fonts) ==
    \A target_platform \in TargetPlatforms, key \in all_keys(fonts) :
        ConditionsHold(hint_pass(platform_pass(candidate_members(fonts, key),
                                               target_platform),
                                 target_platform))

\* C23: during the loop of main over windows, linux and other on a fixed
\* catalog, selections of two target platforms that lead to the same
\* package basename have the same members, and the assertion of create_zip
\* on the members recorded for an existing package never fails, for a
\* catalog in which every selection satisfies the selector post-conditions.
C23_Claim ==
    (mpc # "idle" /\ SelectorPostConditions(all_fonts)) =>
        /\ \A s1, s2 \in selections :
              (s1.platform # s2.platform /\ s1.basename = s2.basename) =>
                  s1.fonts = s2.fonts
        /\ ~(zlast.existed /\ zlast.err = "AssertionError")
============================================================================
